---------------------------- MODULE Spec2Model ----------------------------
(***************************************************************************)
(* Verification model of the analysis engine of awesome-gsc-mcp            *)
(* (recommendation engine, opportunity scorer, trend detector, query       *)
(* classifier, CTR benchmarks), of its cache manager and rate limiter, and *)
(* of the sites endpoints and the search analytics pagination.             *)
(*                                                                         *)
(* Conventions                                                             *)
(*  - A JavaScript string is a sequence of symbols (one-character strings; *)
(*    a recommendation type tag is a single symbol), so that string        *)
(*    concatenation is \o and two keys are equal exactly when the          *)
(*    concatenated texts are equal.                                        *)
(*  - An optional value (undefined | v) is None == <<>> or Some(v) == <<v>>.*)
(*  - Numbers are fixed point: position in tenths, ctr and ctrRatio in     *)
(*    thousandths, factor values in 1e-4, contributions in 1e-6.           *)
(***************************************************************************)
EXTENDS Integers, Sequences, FiniteSets, TLC

VARIABLES
    recs,        \* sort/dedup: the caller's recommendation list
    out,         \* sort/dedup: the list returned by the last call
    op,          \* sort/dedup: which function was called ("none" before a call)
    rows,            \* generate: RecommendationInput.rows
    ctrAnalyses,     \* generate: RecommendationInput.ctrAnalyses (None when absent)
    trends,          \* generate: RecommendationInput.trends (None when absent),
                     \*           the Map as its entries in insertion order
    recommendations, \* generate: the returned list
    generated,       \* generate: TRUE once generateRecommendations has returned
    params,          \* scorer: the OpportunityParams of the call at hand
    scoreResult,     \* scorer: None, or Some(OpportunityScore) once it returned
    prev,            \* scorer: None, or Some of the previous call's params and
                     \*         result (the caller's record of it)
    trendPoints,     \* trend detector: the caller's TrendPoint list
    trendOut,        \* trend detector: None, or Some(TrendAnalysis) once
                     \*                 detectTrend has returned
    classifyInput,   \* classifier: the query string of the call at hand
    classified,      \* classifier: None, or Some(ClassifiedQuery) once
                     \*             classifyQuery has returned
    ctrPosition,     \* CTR benchmark: the position of the call at hand (tenths)
    ctrActual,       \* CTR benchmark: its actual CTR (in 1e-4)
    ctrResult,       \* CTR benchmark: None, or Some(CtrAnalysis) once analyzeCtr
                     \*                has returned
    store,           \* cache: the Map's entries [key, value, expiresAt] in
                     \*        insertion order
    maxEntries,      \* cache: the constructor's argument
    cacheHits,       \* cache: hit counter (hits)
    cacheMisses,     \* cache: miss counter (misses)
    now,             \* cache: Date.now()
    lastGet,         \* cache: Some([key, result]) while a get has just returned
                     \*        (result None is undefined), else None
    calls,           \* cache: the number of calls the caller has made
    lastSet,         \* cache: per key, Some([value, at, ttlMs]) of the caller's
                     \*        latest set, None once the key was deleted,
                     \*        invalidated, cleared or evicted as least recently used
    lastCall,        \* cache: the caller's latest call [op, key, before]: its
                     \*        name, its key or prefix and, for a set, the
                     \*        entries the Map held when it was made; op is
                     \*        "none" before the first call and after the
                     \*        clock moved
    lastUse,         \* cache: the stored keys in the order of the caller's
                     \*        latest set or successful get of each, the least
                     \*        recently used first
    gets,            \* cache: the get calls since construction or clear()
    tokens,          \* rate limiter: this.tokens, in thousandths of a token
    maxBurst,        \* rate limiter: the constructor's maxBurst
    tokensPerSecond, \* rate limiter: the constructor's tokensPerSecond
    sinceRefill,     \* rate limiter: Date.now() - this.lastRefillTime in ms,
                     \*        counted up to the time that fills an empty bucket
    queue,           \* rate limiter: the waiting acquire() calls, first come
                     \*        first (this.queue, a call as its number)
    timers,          \* rate limiter: the pending setTimeout(drainNext) calls,
                     \*        each as the ms until it is due
    logging,         \* rate limiter: TRUE when the history below is kept and
                     \*        calls are numbered in the order they are made
    clock,           \* rate limiter: Date.now() in ms since construction
    issued,          \* rate limiter: the number of acquire() calls made
    grants,          \* rate limiter: the resolved calls [id, at] in the order
                     \*        in which they resolved
    siteEntry,       \* sites: the sites of the account at the API, as site URLs
    siteVersion,     \* sites: the number of add/delete requests the API has
                     \*        carried out
    siteCache,       \* sites: the entries of the CacheManager's Map
    siteCalls,       \* sites: the calls made, each [fn, siteUrl, pc, response,
                     \*        result, fromCache, seen]
    siteResolved,    \* sites: the highest siteVersion whose add/delete call has
                     \*        resolved
    saRequest,       \* analytics: the request, [rowLimit, startRow], each None when
                     \*        missing
    saCache,         \* analytics: None, or Some of the response cached under the
                     \*        request's key
    saPc,            \* analytics: "idle" before the call, "single" or "paging"
                     \*        while a page is awaited, "returned" or "thrown" after
    allRows,         \* analytics: the pages pushed so far, each as [startRow, rows]:
                     \*        the offset it was asked at and its number of rows
    startRow,        \* analytics: the local startRow (None while undefined)
    saAsked,         \* analytics: the page requests made, [rowLimit, startRow,
                     \*        received], received None while awaited or failed
    saReturned       \* analytics: None, or Some of the returned response

recVars == <<recs, out, op>>

genVars == <<rows, ctrAnalyses, trends, recommendations, generated>>

scoreVars == <<params, scoreResult, prev>>

vars ==
    <<recVars, genVars, scoreVars, trendPoints, trendOut, classifyInput,
      classified, ctrPosition, ctrActual, ctrResult, store, maxEntries,
      cacheHits, cacheMisses, now, lastGet, calls, lastSet, lastCall, lastUse,
      gets, tokens, maxBurst, tokensPerSecond, sinceRefill, queue, timers,
      logging, clock, issued, grants, siteEntry, siteVersion, siteCache,
      siteCalls, siteResolved, saRequest, saCache, saPc, allRows, startRow,
      saAsked, saReturned>>

-----------------------------------------------------------------------------
(* Bounds of the model *)

MaxRecs == 2

MaxRows == 2

MaxTrends == 1

MaxPoints == 4

MaxPhrases == 2

MaxTime == 3

MaxCalls == 4

MaxQueue == 2

MaxAcquires == 5

MaxClock == 5

MaxSiteCalls == 3

-----------------------------------------------------------------------------
(* Optional values and strings *)

None == <<>>

Some(v) == <<v>>

IsSome(o) == Len(o) = 1

Val(o) == o[1]

\* JavaScript truthiness of (string | undefined): undefined and "" are falsy.
Truthy(o) == IsSome(o) /\ Val(o) # <<>>

Sep == <<":", ":">>

Str_empty == <<>>

Str_a == <<"a">>

Str_a_b == <<"a", ":", ":", "b">>

Str_c == <<"c">>

Str_b_c == <<"b", ":", ":", "c">>

-----------------------------------------------------------------------------
(* Recommendation values *)

Priorities == {"critical", "high", "medium", "low"}

PRIORITY_ORDER == [critical |-> 0, high |-> 1, medium |-> 2, low |-> 3]

\* A Recommendation; title, description and impact are display text that no
\* rule, sort or dedup reads, and are left out.
MkRec(type, priority, effort, data) ==
    [type |-> type, priority |-> priority, effort |-> effort, data |-> data]

DataKeys ==
    {"query", "page", "key", "pages", "pageCount", "position", "impressions",
     "totalImpressions", "ctr", "ctrRatio", "direction"}

\* The evidence bag (Record<string, unknown>): opts gives the keys that are
\* set, each as an optional value; every other key reads as undefined.  The
\* trend's percentChange and confidence are copied through unread and are
\* left out.
MkData(opts) == [k \in DataKeys |-> IF k \in DOMAIN opts THEN opts[k] ELSE None]

-----------------------------------------------------------------------------
(* sortRecommendations *)

\* (a.data.impressions as number) ?? (a.data.totalImpressions as number) ?? 0
ImpressionsOf(rec) ==
    IF IsSome(rec.data.impressions) THEN Val(rec.data.impressions)
    ELSE IF IsSome(rec.data.totalImpressions) THEN Val(rec.data.totalImpressions)
    ELSE 0

\* The comparator passed to Array.prototype.sort.
Compare(a, b) ==
    LET priorityDiff == PRIORITY_ORDER[a.priority] - PRIORITY_ORDER[b.priority]
    IN  IF priorityDiff # 0 THEN priorityDiff
        ELSE ImpressionsOf(b) - ImpressionsOf(a)

InsertUnstable(s, x) ==
    LET k == Cardinality({i \in 1..Len(s) : Compare(s[i], x) < 0})
    IN  SubSeq(s, 1, k) \o <<x>> \o SubSeq(s, k + 1, Len(s))

\* One step of a stable sort: x goes behind every element that does not
\* compare greater than it (s is sorted, so these form a prefix).
Insert(s, x) ==
    LET k == Cardinality({i \in 1..Len(s) : Compare(s[i], x) <= 0})
    IN  SubSeq(s, 1, k) \o <<x>> \o SubSeq(s, k + 1, Len(s))

RECURSIVE SortPrefix(_, _)
\* The first n elements of list, sorted; Array.prototype.sort is stable
\* (ECMAScript 2019), so the result is the one a stable insertion sort gives.
SortPrefix(list, n) ==
    IF n = 0 THEN <<>> ELSE Insert(SortPrefix(list, n - 1), list[n])

\* [...recommendations].sort(compare): a new array, the input is not touched.
\* A call without the copy: .sort runs on the caller's array itself.
SortCallInPlace(list) ==
    LET h0 == [argument |-> list]
        h1 == [h0 EXCEPT !.argument = SortPrefix(h0.argument, Len(h0.argument))]
    IN  [argument |-> h1.argument, returned |-> h1.argument]

\* The arrays of one call of sortRecommendations: the caller's array
\* (argument) and the array made by the spread.  Array.prototype.sort sorts
\* its receiver in place and returns it; the receiver is the new array.
SortCall(list) ==
    LET h0 == [argument |-> list, fresh |-> <<>>]
        h1 == [h0 EXCEPT !.fresh = h0.argument]
        h2 == [h1 EXCEPT !.fresh = SortPrefix(h1.fresh, Len(h1.fresh))]
    IN  [argument |-> h2.argument, returned |-> h2.fresh]

sortRecommendations(list) == SortCall(list).returned

-----------------------------------------------------------------------------
(* deduplicateRecommendations *)

DedupKey(rec) == rec.type \o Sep \o Val(rec.data.query) \o Sep \o Val(rec.data.page)

RECURSIVE DedupLoop(_, _, _, _)
\* for (const rec of sorted) { if (query && page) { if seen: continue; add }
\*                             result.push(rec) }
DedupLoop(sorted, i, seen, result) ==
    IF i > Len(sorted) THEN result
    ELSE LET rec == sorted[i]
         IN  IF Truthy(rec.data.query) /\ Truthy(rec.data.page)
             THEN IF DedupKey(rec) \in seen
                  THEN DedupLoop(sorted, i + 1, seen, result)
                  ELSE DedupLoop(sorted, i + 1, seen \cup {DedupKey(rec)},
                                 Append(result, rec))
             ELSE DedupLoop(sorted, i + 1, seen, Append(result, rec))

DedupNoSort(list) ==
    DedupLoop(list, 1, {}, <<>>)

\* A key is built from the text of a missing value as well ("undefined").
UndefText(o) == IF IsSome(o) THEN Val(o) ELSE <<"undefined">>

RECURSIVE DedupLoopAlwaysKey(_, _, _, _)
DedupLoopAlwaysKey(sorted, i, seen, result) ==
    IF i > Len(sorted) THEN result
    ELSE LET rec == sorted[i]
             key == rec.type \o Sep \o UndefText(rec.data.query)
                             \o Sep \o UndefText(rec.data.page)
         IN  IF key \in seen
             THEN DedupLoopAlwaysKey(sorted, i + 1, seen, result)
             ELSE DedupLoopAlwaysKey(sorted, i + 1, seen \cup {key},
                                     Append(result, rec))

DedupAlwaysKey(list) ==
    DedupLoopAlwaysKey(sortRecommendations(list), 1, {}, <<>>)

deduplicateRecommendations(list) ==
    DedupLoop(sortRecommendations(list), 1, {}, <<>>)

\* The arrays of one call of deduplicateRecommendations: the caller's array
\* goes to sortRecommendations only, the result is built by push.
DedupCall(list) ==
    [argument |-> SortCall(list).argument,
     returned |-> deduplicateRecommendations(list)]

-----------------------------------------------------------------------------
(* Recommendation rules *)

HIGH_IMPRESSIONS_THRESHOLD == 1000

MEDIUM_IMPRESSIONS_THRESHOLD == 100

\* 0.6 in thousandths.
LOW_CTR_RATIO == 600

\* The raw-ctr threshold 0.05 of checkTitleOptimization, in thousandths.
LowRawCtr == 50

\* A GscRow; position in tenths, ctr in thousandths.
MkRow(query, page, clicks, impressions, ctr, position) ==
    [query |-> query, page |-> page, clicks |-> clicks,
     impressions |-> impressions, ctr |-> ctr, position |-> position]

UpperCase ==
    <<"A", "B", "C", "D", "E", "F", "G", "H", "I", "J", "K", "L", "M",
      "N", "O", "P", "Q", "R", "S", "T", "U", "V", "W", "X", "Y", "Z">>

LowerCase ==
    <<"a", "b", "c", "d", "e", "f", "g", "h", "i", "j", "k", "l", "m",
      "n", "o", "p", "q", "r", "s", "t", "u", "v", "w", "x", "y", "z">>

Digits == {"0", "1", "2", "3", "4", "5", "6", "7", "8", "9"}

WhiteSpace == {" ", "\t", "\n", "\r"}

\* String.prototype.toLowerCase on the symbols of the model.
toLowerCase(str) ==
    [i \in 1..Len(str) |->
        IF \E k \in 1..Len(UpperCase) : UpperCase[k] = str[i]
        THEN LowerCase[CHOOSE k \in 1..Len(UpperCase) : UpperCase[k] = str[i]]
        ELSE str[i]]

\* String.prototype.trim.
trim(str) ==
    LET keep == {i \in 1..Len(str) : str[i] \notin WhiteSpace}
    IN  IF keep = {} THEN <<>>
        ELSE LET first == CHOOSE i \in keep : \A j \in keep : i <= j
                 last == CHOOSE i \in keep : \A j \in keep : j <= i
             IN  SubSeq(str, first, last)

\* \w of a regular expression without the u flag.
IsWordChar(c) ==
    \/ \E k \in 1..Len(LowerCase) : LowerCase[k] = c \/ UpperCase[k] = c
    \/ c \in Digits
    \/ c = "_"

QuestionWords ==
    {<<"h", "o", "w">>, <<"w", "h", "a", "t">>, <<"w", "h", "y">>,
     <<"w", "h", "e", "n">>, <<"w", "h", "e", "r", "e">>, <<"w", "h", "o">>,
     <<"w", "h", "i", "c", "h">>, <<"c", "a", "n">>, <<"d", "o", "e", "s">>,
     <<"i", "s">>, <<"a", "r", "e">>, <<"d", "o">>,
     <<"s", "h", "o", "u", "l", "d">>, <<"w", "i", "l", "l">>}

\* /^(how|what|...|will)\b/.test(query.toLowerCase().trim())
isQuestionQuery(query) ==
    LET normalized == trim(toLowerCase(query))
    IN  \E w \in QuestionWords :
            /\ Len(normalized) >= Len(w)
            /\ SubSeq(normalized, 1, Len(w)) = w
            /\ \/ Len(normalized) = Len(w)
               \/ ~IsWordChar(normalized[Len(w) + 1])

\* The queries of rows in first-occurrence order (the key order of the Map).
RECURSIVE QueryOrder(_, _)
QueryOrder(rowList, n) ==
    IF n = 0 THEN <<>>
    ELSE LET before == QueryOrder(rowList, n - 1)
         IN  IF \E i \in 1..Len(before) : before[i] = rowList[n].query
             THEN before
             ELSE Append(before, rowList[n].query)

\* The rows of one query, in list order (SelectSeq with the query fixed).
RowsOfQuery(rowList, query) ==
    LET idx == {i \in 1..Len(rowList) : rowList[i].query = query}
        Nth(k) == CHOOSE i \in idx : Cardinality({j \in idx : j <= i}) = k
    IN  [k \in 1..Cardinality(idx) |-> rowList[Nth(k)]]

DistinctPages(rowList, query) ==
    {rowList[i].page : i \in {j \in 1..Len(rowList) : rowList[j].query = query}}

\* findCannibalizingQueries: the keys of the returned Map, in order; the
\* value of key q is RowsOfQuery(rows, q).  A group is flagged when it has
\* more than one row (pageRows.length > 1).
findCannibalizingQueries(rowList) ==
    SelectSeq(QueryOrder(rowList, Len(rowList)),
              LAMBDA q : Len(RowsOfQuery(rowList, q)) > 1)

\* Rule 1.  ctrAnalysis is None or Some(analysis); an analysis object is
\* always truthy.  Returns None (null) or Some(recommendation).
checkTitleOptimization(row, ctrAnalysis) ==
    IF row.position > 30 THEN None
    ELSE IF row.impressions < MEDIUM_IMPRESSIONS_THRESHOLD THEN None
    ELSE LET isLowCtr == IF IsSome(ctrAnalysis)
                         THEN Val(ctrAnalysis).ctrRatio < LOW_CTR_RATIO
                         ELSE row.ctr < LowRawCtr
         IN  IF ~isLowCtr THEN None
             ELSE Some(MkRec(<<"title_optimization">>, "high", "low",
                    MkData([query |-> Some(row.query), page |-> Some(row.page),
                            position |-> Some(row.position),
                            impressions |-> Some(row.impressions),
                            ctr |-> Some(row.ctr),
                            ctrRatio |-> IF IsSome(ctrAnalysis)
                                         THEN Some(Val(ctrAnalysis).ctrRatio)
                                         ELSE None])))

RowData(row) ==
    MkData([query |-> Some(row.query), page |-> Some(row.page),
            position |-> Some(row.position),
            impressions |-> Some(row.impressions)])

\* Rule 2.
checkContentExpansion(row) ==
    IF row.position < 40 \/ row.position > 100 THEN None
    ELSE IF row.impressions < HIGH_IMPRESSIONS_THRESHOLD THEN None
    ELSE Some(MkRec(<<"content_expansion">>, "high", "medium", RowData(row)))

\* Rule 3 without the lower end of its position band.
PageTwoNoLowerBound(row) ==
    IF row.position > 200 THEN None
    ELSE IF row.impressions < HIGH_IMPRESSIONS_THRESHOLD THEN None
    ELSE Some(MkRec(<<"page_two_optimization">>, "medium", "high", RowData(row)))

\* Rule 3.
checkPageTwoContent(row) ==
    IF row.position < 110 \/ row.position > 200 THEN None
    ELSE IF row.impressions < HIGH_IMPRESSIONS_THRESHOLD THEN None
    ELSE Some(MkRec(<<"page_two_optimization">>, "medium", "high", RowData(row)))

RECURSIVE SumImpressions(_, _)
SumImpressions(rowList, n) ==
    IF n = 0 THEN 0 ELSE SumImpressions(rowList, n - 1) + rowList[n].impressions

\* Rule 4.
checkCannibalization(query, rowList) ==
    IF Len(rowList) < 2 THEN None
    ELSE Some(MkRec(<<"consolidation">>, "high", "medium",
            MkData([query |-> Some(query),
                    pages |-> Some([i \in 1..Len(rowList) |-> rowList[i].page]),
                    totalImpressions |-> Some(SumImpressions(rowList, Len(rowList))),
                    pageCount |-> Some(Len(rowList))])))

\* Rule 5.  row is None (find returned undefined) or Some(row).
checkDecliningTrend(key, trend, row) ==
    IF trend.direction # "falling" THEN None
    ELSE IF IsSome(row) /\ Val(row).impressions < MEDIUM_IMPRESSIONS_THRESHOLD
         THEN None
    ELSE Some(MkRec(<<"content_refresh">>, "critical", "medium",
            MkData([key |-> Some(key),
                    direction |-> Some(trend.direction),
                    impressions |-> IF IsSome(row) THEN Some(Val(row).impressions)
                                    ELSE None])))

\* Rule 7.
checkNicheKeyword(row) ==
    IF row.position > 50 THEN None
    ELSE IF row.impressions >= 10 THEN None
    ELSE Some(MkRec(<<"low_value_keyword">>, "low", "low", RowData(row)))

QuestionIgnoringPosition(row) ==
    IF ~isQuestionQuery(row.query) THEN None
    ELSE IF row.impressions < MEDIUM_IMPRESSIONS_THRESHOLD THEN None
    ELSE Some(MkRec(<<"question_content">>, "medium", "medium", RowData(row)))

\* Rule 8.
checkQuestionContent(row) ==
    IF ~isQuestionQuery(row.query) THEN None
    ELSE IF row.impressions < MEDIUM_IMPRESSIONS_THRESHOLD THEN None
    ELSE IF row.position <= 30 THEN None
    ELSE Some(MkRec(<<"question_content">>, "medium", "medium", RowData(row)))

-----------------------------------------------------------------------------
(* generateRecommendations *)

CtrKey(row) == row.query \o Sep \o row.page

\* ctrByKey.get(key) after the loop that fills the Map: the analysis of the
\* last index i < min(rows.length, ctrAnalyses.length) whose row has the key.
CtrByKeyGet(rowList, analyses, key) ==
    IF ~IsSome(analyses) THEN None
    ELSE LET n == IF Len(rowList) < Len(Val(analyses))
                  THEN Len(rowList) ELSE Len(Val(analyses))
             hits == {i \in 1..n : CtrKey(rowList[i]) = key}
         IN  IF hits = {} THEN None
             ELSE Some(Val(analyses)[CHOOSE i \in hits : \A j \in hits : j <= i])

\* The recommendations the per-row rules push for one row, in push order.
PerRowRecs(row, ctrAnalysis) ==
    checkTitleOptimization(row, ctrAnalysis)
        \o checkContentExpansion(row)
        \o checkPageTwoContent(row)
        \o checkNicheKeyword(row)
        \o checkQuestionContent(row)

RECURSIVE PerRowLoop(_, _, _)
PerRowLoop(rowList, analyses, n) ==
    IF n = 0 THEN <<>>
    ELSE PerRowLoop(rowList, analyses, n - 1)
            \o PerRowRecs(rowList[n],
                          CtrByKeyGet(rowList, analyses, CtrKey(rowList[n])))

RECURSIVE CannibalizationLoop(_, _, _)
CannibalizationLoop(rowList, queries, n) ==
    IF n = 0 THEN <<>>
    ELSE CannibalizationLoop(rowList, queries, n - 1)
            \o checkCannibalization(queries[n], RowsOfQuery(rowList, queries[n]))

FindLastMatchingRow(rowList, key) ==
    LET hits == {i \in 1..Len(rowList) :
                    rowList[i].query = key \/ rowList[i].page = key}
    IN  IF hits = {} THEN None
        ELSE Some(rowList[CHOOSE i \in hits : \A j \in hits : j <= i])

\* rows.find((r) => r.query === key || r.page === key)
FindMatchingRow(rowList, key) ==
    LET hits == {i \in 1..Len(rowList) :
                    rowList[i].query = key \/ rowList[i].page = key}
    IN  IF hits = {} THEN None
        ELSE Some(rowList[CHOOSE i \in hits : \A j \in hits : i <= j])

RECURSIVE TrendLoop(_, _, _)
TrendLoop(rowList, entries, n) ==
    IF n = 0 THEN <<>>
    ELSE TrendLoop(rowList, entries, n - 1)
            \o checkDecliningTrend(entries[n].key, entries[n].trend,
                                   FindMatchingRow(rowList, entries[n].key))

\* generateRecommendations({rows, ctrAnalyses, trends}); opportunities is
\* accepted and never read.
generateRecommendations(rowList, analyses, trendMap) ==
    PerRowLoop(rowList, analyses, Len(rowList))
        \o CannibalizationLoop(rowList, findCannibalizingQueries(rowList),
                               Len(findCannibalizingQueries(rowList)))
        \o (IF IsSome(trendMap)
            THEN TrendLoop(rowList, Val(trendMap), Len(Val(trendMap)))
            ELSE <<>>)

-----------------------------------------------------------------------------
(* Opportunity scorer *)
(* Fixed point: impressions and queryCount are integers, position is in    *)
(* tenths, ctr and expectedCtr in thousandths, trend in 1e-4, a factor     *)
(* value in 1e-4 (100 is 1000000), a weight in hundredths, a contribution  *)
(* and the unrounded score in 1e-6, the returned score in hundredths.      *)

\* Factor weights, in hundredths.
WEIGHTS ==
    [impressions |-> 30, ctrGap |-> 25, position |-> 25, trend |-> 10,
     queryCount |-> 10]

MAX_IMPRESSIONS_LOG == 5

MAX_QUERY_COUNT_LOG == 3

\* Math.log10 of x / 10, in 1e-6, at the arguments the model's inputs reach.
Log10E6(x) ==
    CASE x = 5 -> -301030
      [] x = 10 -> 0
      [] x = 20 -> 301030
      [] x = 25 -> 397940
      [] x = 100 -> 1000000
      [] x = 1000 -> 2000000
      [] x = 10000 -> 3000000
      [] x = 50010 -> 3699057
      [] x = 1000000 -> 5000000
      [] x = 10000010 -> 6000000

DefaultExpectedCtrStale == <<317, 247, 187, 136, 95, 62, 42, 31, 24, 20>>

\* In thousandths, by rounded position.
DEFAULT_EXPECTED_CTR == <<317, 247, 187, 136, 95, 62, 42, 31, 24, 22>>

\* Math.round of a value given in tenths (halves round up).
RoundTenths(x) == (x + 5) \div 10

getDefaultExpectedCtr(position) ==
    LET rounded == IF RoundTenths(position) > 1 THEN RoundTenths(position) ELSE 1
    IN  IF rounded <= Len(DEFAULT_EXPECTED_CTR) THEN DEFAULT_EXPECTED_CTR[rounded]
        ELSE IF rounded <= 20 THEN 15
        ELSE 5

\* Math.max(0, Math.min(100, value)) for a value whose unit is 1 / scale.
clamp100(value, scale) ==
    LET capped == IF value < 100 * scale THEN value ELSE 100 * scale
    IN  IF capped > 0 THEN capped ELSE 0

\* Units per 1 of a factor value and of the unrounded score.
ValueScale == 10000

ScoreScale == 1000000

normalizeImpressions(impressions) ==
    IF impressions <= 0 THEN 0
    ELSE clamp100(Log10E6((impressions + 1) * 10) \div MAX_IMPRESSIONS_LOG, ValueScale)

normalizeCtrGap(actualCtr, expectedCtr) ==
    IF expectedCtr <= 0 THEN 0
    ELSE LET gap == expectedCtr - actualCtr
         IN  IF gap <= 0 THEN 0
             ELSE clamp100((gap * 1000000) \div expectedCtr, ValueScale)

normalizePositionUnclamped(position) ==
    IF position <= 0 THEN 1000000
    ELSE IF position >= 1000 THEN 0
    ELSE 1000000 - (Log10E6(position) \div 2)

normalizePosition(position) ==
    IF position <= 0 THEN 1000000
    ELSE IF position >= 1000 THEN 0
    ELSE clamp100(1000000 - (Log10E6(position) \div 2), ValueScale)

normalizeTrendRisingUrgent(trend) == clamp100(500000 + trend * 50, ValueScale)

\* clamp100(50 - trend * 50)
normalizeTrend(trend) == clamp100(500000 - trend * 50, ValueScale)

normalizeQueryCount(queryCount) ==
    IF queryCount <= 0 THEN 0
    ELSE clamp100(Log10E6((queryCount + 1) * 10) \div MAX_QUERY_COUNT_LOG, ValueScale)

getPriority(score) ==
    IF score >= 80000000 THEN "critical"
    ELSE IF score >= 60000000 THEN "high"
    ELSE IF score >= 40000000 THEN "medium"
    ELSE "low"

\* A ScoreFactor.
MkFactor(name, value) ==
    [name |-> name, weight |-> WEIGHTS[name], value |-> value,
     contribution |-> WEIGHTS[name] * value]

RECURSIVE SumContributions(_, _)
\* factors.reduce((sum, factor) => sum + factor.contribution, 0)
SumContributions(factors, n) ==
    IF n = 0 THEN 0 ELSE SumContributions(factors, n - 1) + factors[n].contribution

\* Math.round(score * 100) / 100, as hundredths.
RoundScore(score) == (score + 5000) \div 10000

\* scoreOpportunity(params).
scoreOpportunity(p) ==
    LET trend == IF IsSome(p.trend) THEN Val(p.trend) ELSE 0
        queryCount == IF IsSome(p.queryCount) THEN Val(p.queryCount) ELSE 1
        resolvedExpectedCtr == IF IsSome(p.expectedCtr) THEN Val(p.expectedCtr)
                               ELSE getDefaultExpectedCtr(p.position)
        factors == <<MkFactor("impressions", normalizeImpressions(p.impressions)),
                     MkFactor("ctrGap", normalizeCtrGap(p.ctr, resolvedExpectedCtr)),
                     MkFactor("position", normalizePosition(p.position)),
                     MkFactor("trend", normalizeTrend(trend)),
                     MkFactor("queryCount", normalizeQueryCount(queryCount))>>
        score == clamp100(SumContributions(factors, Len(factors)), ScoreScale)
    IN  [score |-> RoundScore(score),
         priority |-> getPriority(score),
         factors |-> factors]

-----------------------------------------------------------------------------
(* Exact arithmetic on JavaScript numbers                                  *)
(*                                                                         *)
(* The trend detector divides, so its numbers are kept as fractions in     *)
(* lowest terms [n |-> numerator, d |-> denominator > 0]; the rounding of  *)
(* IEEE doubles is not modelled.  Math.sqrt(r) is kept as [sq |-> r], the  *)
(* non-negative number whose square is r.                                  *)

Abs(x) == IF x < 0 THEN -x ELSE x

RECURSIVE GCD(_, _)
GCD(a, b) == IF b = 0 THEN a ELSE GCD(b, a % b)

\* The number n / d (d # 0) in lowest terms.
Rat(n, d) ==
    LET g == GCD(Abs(n), Abs(d))
        s == IF d < 0 THEN -1 ELSE 1
    IN  [n |-> s * (n \div g), d |-> Abs(d) \div g]

RInt(k) == [n |-> k, d |-> 1]

RAdd(p, q) ==
    LET g == GCD(p.d, q.d)
    IN  Rat(p.n * (q.d \div g) + q.n * (p.d \div g), (p.d \div g) * q.d)

RNeg(p) == [n |-> -p.n, d |-> p.d]

RSub(p, q) == RAdd(p, RNeg(q))

RMul(p, q) ==
    LET g1 == GCD(Abs(p.n), q.d)
        g2 == GCD(Abs(q.n), p.d)
    IN  Rat((p.n \div g1) * (q.n \div g2), (p.d \div g2) * (q.d \div g1))

\* p / q for q # 0.
RDiv(p, q) == RMul(p, Rat(q.d, q.n))

RAbs(p) == [n |-> Abs(p.n), d |-> p.d]

RLess(p, q) == p.n * q.d < q.n * p.d

RECURSIVE RSumOf(_)
RSumOf(s) == IF s = <<>> THEN RInt(0) ELSE RAdd(Head(s), RSumOf(Tail(s)))

Sqrt(r) == [sq |-> r]

-----------------------------------------------------------------------------
(* Trend detector                                                          *)
(* A TrendPoint is [date, value]: the date is the day number k of the ISO  *)
(* date string "2024-01-<k>", the value an integer.                        *)

DIRECTION_THRESHOLD == Rat(5, 1000)

BREAKPOINT_MULTIPLIER == 2

MIN_POINTS == 2

MsPerDay == 86400000

\* new Date(date).getTime(), relative to the midnight before day 1.
getTime(date) == date * MsPerDay

linearRegression(xs, ys) ==
    LET n == Len(xs)
        sumX == RSumOf(xs)
        sumY == RSumOf(ys)
        sumXY == RSumOf([i \in 1..n |-> RMul(xs[i], ys[i])])
        sumXX == RSumOf([i \in 1..n |-> RMul(xs[i], xs[i])])
        denominator == RSub(RMul(RInt(n), sumXX), RMul(sumX, sumX))
        slope == RDiv(RSub(RMul(RInt(n), sumXY), RMul(sumX, sumY)), denominator)
        intercept == RDiv(RSub(sumY, RMul(slope, sumX)), RInt(n))
        meanY == RDiv(sumY, RInt(n))
        predicted(i) == RAdd(RMul(slope, xs[i]), intercept)
        square(p) == RMul(p, p)
        ssTot == RSumOf([i \in 1..n |-> square(RSub(ys[i], meanY))])
        ssRes == RSumOf([i \in 1..n |-> square(RSub(ys[i], predicted(i)))])
        rSquared == IF ssTot = RInt(0) THEN RInt(0)
                    ELSE RSub(RInt(1), RDiv(ssRes, ssTot))
    IN  IF n < MIN_POINTS
        THEN [slope |-> RInt(0), rSquared |-> RInt(0)]
        ELSE IF denominator = RInt(0)
        THEN [slope |-> RInt(0), rSquared |-> RInt(0)]
        ELSE [slope |-> slope,
              rSquared |-> IF RLess(rSquared, RInt(0)) THEN RInt(0) ELSE rSquared]

mean(values) ==
    IF Len(values) = 0 THEN RInt(0)
    ELSE RDiv(RSumOf(values), RInt(Len(values)))

stddev(values, avg) ==
    IF Len(values) = 0 THEN Sqrt(RInt(0))
    ELSE LET diff(i) == RSub(values[i], avg)
             sumSqDiff == RSumOf([i \in 1..Len(values) |-> RMul(diff(i), diff(i))])
         IN  Sqrt(RDiv(sumSqDiff, RInt(Len(values))))

dateToDayOffset(date, baseTime) == Rat(getTime(date) - baseTime, MsPerDay)

\* [...points].sort((a, b) => getTime(a.date) - getTime(b.date)): the sort is
\* stable, so a point goes behind every point whose time is not later.
InsertPoint(sorted, p) ==
    LET k == Cardinality({i \in 1..Len(sorted) :
                             getTime(sorted[i].date) - getTime(p.date) <= 0})
    IN  SubSeq(sorted, 1, k) \o <<p>> \o SubSeq(sorted, k + 1, Len(sorted))

RECURSIVE SortPoints(_, _)
SortPoints(points, n) ==
    IF n = 0 THEN <<>>
    ELSE InsertPoint(SortPoints(points, n - 1), points[n])

\* Number.prototype.toFixed(1): the sign and the tenths of the magnitude,
\* halves rounded away from zero.
toFixed1(r) ==
    [neg |-> r.n < 0, tenths |-> (20 * Abs(r.n) + r.d) \div (2 * r.d)]

\* The summary text as its parts in order; an absent part is None.
buildSummary(direction, percentChange, confidence, breakpoints, volatility) ==
    LET dirLabel == IF direction = "rising" THEN "upward"
                    ELSE IF direction = "falling" THEN "downward"
                    ELSE "stable"
        changeStr == <<IF ~RLess(percentChange, RInt(0)) THEN "+" ELSE "",
                       toFixed1(percentChange)>>
        signal == IF ~RLess(confidence, Rat(7, 10)) THEN "Strong trend signal."
                  ELSE IF ~RLess(confidence, Rat(4, 10))
                  THEN "Moderate trend signal."
                  ELSE "Weak trend signal; data is noisy."
        volPart == IF RLess(Rat(25, 100), volatility.sq)
                   THEN Some("High volatility detected.")
                   ELSE IF RLess(Rat(4, 100), volatility.sq)
                   THEN Some("Moderate volatility.")
                   ELSE None
        bpPart == IF Len(breakpoints) > 0
                  THEN Some(<<Len(breakpoints),
                              IF Len(breakpoints) > 1 THEN "sudden changes detected."
                              ELSE "sudden change detected.">>)
                  ELSE None
    IN  <<Some(<<dirLabel, changeStr>>), Some(signal), volPart, bpPart>>

InsufficientDataConfident ==
    [direction |-> "stable", slope |-> RInt(0), percentChange |-> RInt(0),
     volatility |-> Sqrt(RInt(0)), confidence |-> RInt(1), breakpoints |-> <<>>,
     summary |-> <<Some("Insufficient data for trend analysis (need at least 2 points).")>>]

\* The result for fewer than MIN_POINTS points.
InsufficientData ==
    [direction |-> "stable", slope |-> RInt(0), percentChange |-> RInt(0),
     volatility |-> Sqrt(RInt(0)), confidence |-> RInt(0), breakpoints |-> <<>>,
     summary |-> <<Some("Insufficient data for trend analysis (need at least 2 points).")>>]

ReachesThreshold(absChange, avgDailyChange) ==
    /\ RLess(RInt(0), avgDailyChange)
    /\ ~RLess(absChange, RMul(RInt(BREAKPOINT_MULTIPLIER), avgDailyChange))

\* avgDailyChange > 0 && absChange > BREAKPOINT_MULTIPLIER * avgDailyChange
ExceedsThreshold(absChange, avgDailyChange) ==
    /\ RLess(RInt(0), avgDailyChange)
    /\ RLess(RMul(RInt(BREAKPOINT_MULTIPLIER), avgDailyChange), absChange)

\* The breakpoint loop from index i (1-based) on.
RECURSIVE BreakpointLoop(_, _, _, _)
BreakpointLoop(sorted, ys, avgDailyChange, i) ==
    IF i > Len(sorted) THEN <<>>
    ELSE LET currentValue == ys[i]
             previousValue == ys[i - 1]
             change == RSub(currentValue, previousValue)
             absChange == RAbs(change)
             changePct == IF previousValue # RInt(0)
                          THEN RMul(RDiv(change, RAbs(previousValue)), RInt(100))
                          ELSE RInt(0)
             found == ExceedsThreshold(absChange, avgDailyChange)
         IN  (IF found
              THEN <<[date |-> sorted[i].date,
                      changePercent |-> RAbs(changePct),
                      direction |-> IF RLess(RInt(0), change) THEN "up" ELSE "down"]>>
              ELSE <<>>)
             \o BreakpointLoop(sorted, ys, avgDailyChange, i + 1)

detectTrend(points) ==
    IF Len(points) < MIN_POINTS THEN InsufficientData
    ELSE
    LET sorted == SortPoints(points, Len(points))
        baseTime == getTime(sorted[1].date)
        xs == [i \in 1..Len(sorted) |-> dateToDayOffset(sorted[i].date, baseTime)]
        ys == [i \in 1..Len(sorted) |-> RInt(sorted[i].value)]
        reg == linearRegression(xs, ys)
        firstValue == ys[1]
        lastValue == ys[Len(ys)]
        percentChange ==
            IF firstValue # RInt(0)
            THEN RMul(RDiv(RSub(lastValue, firstValue), RAbs(firstValue)), RInt(100))
            ELSE RInt(0)
        meanValue == mean(ys)
        stddevValue == stddev(ys, meanValue)
        volatility ==
            IF meanValue # RInt(0)
            THEN Sqrt(RDiv(stddevValue.sq, RMul(meanValue, meanValue)))
            ELSE Sqrt(RInt(0))
        dailyChanges == [i \in 1..(Len(ys) - 1) |-> RAbs(RSub(ys[i + 1], ys[i]))]
        avgDailyChange == mean(dailyChanges)
        breakpoints == BreakpointLoop(sorted, ys, avgDailyChange, 2)
        normalizedSlope == IF meanValue # RInt(0)
                           THEN RDiv(reg.slope, RAbs(meanValue))
                           ELSE RInt(0)
        direction == IF RLess(DIRECTION_THRESHOLD, normalizedSlope) THEN "rising"
                     ELSE IF RLess(normalizedSlope, RNeg(DIRECTION_THRESHOLD))
                     THEN "falling"
                     ELSE "stable"
    IN  [direction |-> direction,
         slope |-> reg.slope,
         percentChange |-> percentChange,
         volatility |-> volatility,
         confidence |-> reg.rSquared,
         breakpoints |-> breakpoints,
         summary |-> buildSummary(direction, percentChange, reg.rSquared,
                                  breakpoints, volatility)]

-----------------------------------------------------------------------------
(* Query classifier                                                        *)
(*                                                                         *)
(* A rule's pattern is /\b(alt|...)\b/ or, when anchored, /^(alt|...)\b/;  *)
(* an alternative is a sequence of tokens: a one-character string stands   *)
(* for that character, "opt:c" for c?, "plus:space" for \s+, "plus:digit"  *)
(* for \d+ and "plus:any" for .+ .  Confidence is in hundredths.           *)

CLASSIFICATION_RULES ==
    <<
      \* /\b(troubleshoot|diagnose)\b/
      [intent |-> "problem_solving", subType |-> "troubleshoot", confidence |-> 90,
       anchored |-> FALSE,
       alts |-> {
          <<"t", "r", "o", "u", "b", "l", "e", "s", "h", "o", "o", "t">>,
          <<"d", "i", "a", "g", "n", "o", "s", "e">>}],
      \* /\b(debug|debugging)\b/
      [intent |-> "problem_solving", subType |-> "debug", confidence |-> 90,
       anchored |-> FALSE,
       alts |-> {
          <<"d", "e", "b", "u", "g">>,
          <<"d", "e", "b", "u", "g", "g", "i", "n", "g">>}],
      \* /\b(fix|repair|resolve)\b/
      [intent |-> "problem_solving", subType |-> "fix", confidence |-> 85,
       anchored |-> FALSE,
       alts |-> {
          <<"f", "i", "x">>, <<"r", "e", "p", "a", "i", "r">>,
          <<"r", "e", "s", "o", "l", "v", "e">>}],
      \* /\b(error|errors|exception|crash|crashed)\b/
      [intent |-> "problem_solving", subType |-> "error", confidence |-> 85,
       anchored |-> FALSE,
       alts |-> {
          <<"e", "r", "r", "o", "r">>, <<"e", "r", "r", "o", "r", "s">>,
          <<"e", "x", "c", "e", "p", "t", "i", "o", "n">>,
          <<"c", "r", "a", "s", "h">>, <<"c", "r", "a", "s", "h", "e", "d">>}],
      \* /\b(issue|issues|problem|problems)\b/
      [intent |-> "problem_solving", subType |-> "issue", confidence |-> 75,
       anchored |-> FALSE,
       alts |-> {
          <<"i", "s", "s", "u", "e">>, <<"i", "s", "s", "u", "e", "s">>,
          <<"p", "r", "o", "b", "l", "e", "m">>,
          <<"p", "r", "o", "b", "l", "e", "m", "s">>}],
      \* /\bnot working\b/
      [intent |-> "problem_solving", subType |-> "fix", confidence |-> 90,
       anchored |-> FALSE,
       alts |-> {
          <<"n", "o", "t", " ", "w", "o", "r", "k", "i", "n", "g">>}],
      \* /\bsolve\b/
      [intent |-> "problem_solving", subType |-> "fix", confidence |-> 80,
       anchored |-> FALSE,
       alts |-> {
          <<"s", "o", "l", "v", "e">>}],
      \* /\b(vs\.?|versus|compared to|comparison)\b/
      [intent |-> "investigational", subType |-> "comparison", confidence |-> 90,
       anchored |-> FALSE,
       alts |-> {
          <<"v", "s", "opt:.">>, <<"v", "e", "r", "s", "u", "s">>,
          <<"c", "o", "m", "p", "a", "r", "e", "d", " ", "t", "o">>,
          <<"c", "o", "m", "p", "a", "r", "i", "s", "o", "n">>}],
      \* /\b(alternative|alternatives|instead of|similar to)\b/
      [intent |-> "investigational", subType |-> "alternative", confidence |-> 85,
       anchored |-> FALSE,
       alts |-> {
          <<"a", "l", "t", "e", "r", "n", "a", "t", "i", "v", "e">>,
          <<"a", "l", "t", "e", "r", "n", "a", "t", "i", "v", "e", "s">>,
          <<"i", "n", "s", "t", "e", "a", "d", " ", "o", "f">>,
          <<"s", "i", "m", "i", "l", "a", "r", " ", "t", "o">>}],
      \* /\b(review|reviews|rating|ratings)\b/
      [intent |-> "investigational", subType |-> "review", confidence |-> 85,
       anchored |-> FALSE,
       alts |-> {
          <<"r", "e", "v", "i", "e", "w">>,
          <<"r", "e", "v", "i", "e", "w", "s">>,
          <<"r", "a", "t", "i", "n", "g">>,
          <<"r", "a", "t", "i", "n", "g", "s">>}],
      \* /\b(best|top\s+\d+|top\s+ten)\b/
      [intent |-> "investigational", subType |-> "best", confidence |-> 80,
       anchored |-> FALSE,
       alts |-> {
          <<"b", "e", "s", "t">>,
          <<"t", "o", "p", "plus:space", "plus:digit">>,
          <<"t", "o", "p", "plus:space", "t", "e", "n">>}],
      \* /\b(recommend|recommendation|suggestions?)\b/
      [intent |-> "investigational", subType |-> "recommendation", confidence |-> 80,
       anchored |-> FALSE,
       alts |-> {
          <<"r", "e", "c", "o", "m", "m", "e", "n", "d">>,
          <<"r", "e", "c", "o", "m", "m", "e", "n", "d", "a", "t", "i", "o", "n">>,
          <<"s", "u", "g", "g", "e", "s", "t", "i", "o", "n", "opt:s">>}],
      \* /\b(buy|purchase|order|add to cart)\b/
      [intent |-> "transactional", subType |-> "purchase", confidence |-> 90,
       anchored |-> FALSE,
       alts |-> {
          <<"b", "u", "y">>, <<"p", "u", "r", "c", "h", "a", "s", "e">>,
          <<"o", "r", "d", "e", "r">>,
          <<"a", "d", "d", " ", "t", "o", " ", "c", "a", "r", "t">>}],
      \* /\b(price|pricing|cost|how much)\b/
      [intent |-> "transactional", subType |-> "pricing", confidence |-> 85,
       anchored |-> FALSE,
       alts |-> {
          <<"p", "r", "i", "c", "e">>, <<"p", "r", "i", "c", "i", "n", "g">>,
          <<"c", "o", "s", "t">>, <<"h", "o", "w", " ", "m", "u", "c", "h">>}],
      \* /\b(cheap|deal|deals|discount|sale|coupon|promo|voucher)\b/
      [intent |-> "transactional", subType |-> "deal", confidence |-> 85,
       anchored |-> FALSE,
       alts |-> {
          <<"c", "h", "e", "a", "p">>, <<"d", "e", "a", "l">>,
          <<"d", "e", "a", "l", "s">>,
          <<"d", "i", "s", "c", "o", "u", "n", "t">>, <<"s", "a", "l", "e">>,
          <<"c", "o", "u", "p", "o", "n">>, <<"p", "r", "o", "m", "o">>,
          <<"v", "o", "u", "c", "h", "e", "r">>}],
      \* /\b(shop|shopping|store|checkout)\b/
      [intent |-> "transactional", subType |-> "shopping", confidence |-> 80,
       anchored |-> FALSE,
       alts |-> {
          <<"s", "h", "o", "p">>, <<"s", "h", "o", "p", "p", "i", "n", "g">>,
          <<"s", "t", "o", "r", "e">>,
          <<"c", "h", "e", "c", "k", "o", "u", "t">>}],
      \* /\b(free shipping|delivery|shipping)\b/
      [intent |-> "transactional", subType |-> "shipping", confidence |-> 80,
       anchored |-> FALSE,
       alts |-> {
          <<"f", "r", "e", "e", " ", "s", "h", "i", "p", "p", "i", "n", "g">>,
          <<"d", "e", "l", "i", "v", "e", "r", "y">>,
          <<"s", "h", "i", "p", "p", "i", "n", "g">>}],
      \* /\b(subscribe|subscription|plan|plans|tier)\b/
      [intent |-> "transactional", subType |-> "subscription", confidence |-> 75,
       anchored |-> FALSE,
       alts |-> {
          <<"s", "u", "b", "s", "c", "r", "i", "b", "e">>,
          <<"s", "u", "b", "s", "c", "r", "i", "p", "t", "i", "o", "n">>,
          <<"p", "l", "a", "n">>, <<"p", "l", "a", "n", "s">>,
          <<"t", "i", "e", "r">>}],
      \* /\b(login|log in|sign in|signin|sign up|signup|register)\b/
      [intent |-> "navigational", subType |-> "login", confidence |-> 90,
       anchored |-> FALSE,
       alts |-> {
          <<"l", "o", "g", "i", "n">>, <<"l", "o", "g", " ", "i", "n">>,
          <<"s", "i", "g", "n", " ", "i", "n">>,
          <<"s", "i", "g", "n", "i", "n">>,
          <<"s", "i", "g", "n", " ", "u", "p">>,
          <<"s", "i", "g", "n", "u", "p">>,
          <<"r", "e", "g", "i", "s", "t", "e", "r">>}],
      \* /\b(dashboard|account|my account|profile|settings)\b/
      [intent |-> "navigational", subType |-> "account", confidence |-> 85,
       anchored |-> FALSE,
       alts |-> {
          <<"d", "a", "s", "h", "b", "o", "a", "r", "d">>,
          <<"a", "c", "c", "o", "u", "n", "t">>,
          <<"m", "y", " ", "a", "c", "c", "o", "u", "n", "t">>,
          <<"p", "r", "o", "f", "i", "l", "e">>,
          <<"s", "e", "t", "t", "i", "n", "g", "s">>}],
      \* /\b(contact|support|help center|customer service)\b/
      [intent |-> "navigational", subType |-> "contact", confidence |-> 80,
       anchored |-> FALSE,
       alts |-> {
          <<"c", "o", "n", "t", "a", "c", "t">>,
          <<"s", "u", "p", "p", "o", "r", "t">>,
          <<"h", "e", "l", "p", " ", "c", "e", "n", "t", "e", "r">>,
          <<"c", "u", "s", "t", "o", "m", "e", "r", " ", "s", "e", "r", "v", "i", "c", "e">>}],
      \* /\b(download|install|app)\b/
      [intent |-> "navigational", subType |-> "download", confidence |-> 70,
       anchored |-> FALSE,
       alts |-> {
          <<"d", "o", "w", "n", "l", "o", "a", "d">>,
          <<"i", "n", "s", "t", "a", "l", "l">>, <<"a", "p", "p">>}],
      \* /^how (to|do|does|can|should)\b/
      [intent |-> "informational", subType |-> "how-to", confidence |-> 90,
       anchored |-> TRUE,
       alts |-> {
          <<"h", "o", "w", " ", "t", "o">>, <<"h", "o", "w", " ", "d", "o">>,
          <<"h", "o", "w", " ", "d", "o", "e", "s">>,
          <<"h", "o", "w", " ", "c", "a", "n">>,
          <<"h", "o", "w", " ", "s", "h", "o", "u", "l", "d">>}],
      \* /^what (is|are|was|were|does)\b/
      [intent |-> "informational", subType |-> "definition", confidence |-> 90,
       anchored |-> TRUE,
       alts |-> {
          <<"w", "h", "a", "t", " ", "i", "s">>,
          <<"w", "h", "a", "t", " ", "a", "r", "e">>,
          <<"w", "h", "a", "t", " ", "w", "a", "s">>,
          <<"w", "h", "a", "t", " ", "w", "e", "r", "e">>,
          <<"w", "h", "a", "t", " ", "d", "o", "e", "s">>}],
      \* /^why (is|are|do|does|did|would|should)\b/
      [intent |-> "informational", subType |-> "explanation", confidence |-> 90,
       anchored |-> TRUE,
       alts |-> {
          <<"w", "h", "y", " ", "i", "s">>,
          <<"w", "h", "y", " ", "a", "r", "e">>,
          <<"w", "h", "y", " ", "d", "o">>,
          <<"w", "h", "y", " ", "d", "o", "e", "s">>,
          <<"w", "h", "y", " ", "d", "i", "d">>,
          <<"w", "h", "y", " ", "w", "o", "u", "l", "d">>,
          <<"w", "h", "y", " ", "s", "h", "o", "u", "l", "d">>}],
      \* /^when (is|are|do|does|did|was|were|will)\b/
      [intent |-> "informational", subType |-> "temporal", confidence |-> 90,
       anchored |-> TRUE,
       alts |-> {
          <<"w", "h", "e", "n", " ", "i", "s">>,
          <<"w", "h", "e", "n", " ", "a", "r", "e">>,
          <<"w", "h", "e", "n", " ", "d", "o">>,
          <<"w", "h", "e", "n", " ", "d", "o", "e", "s">>,
          <<"w", "h", "e", "n", " ", "d", "i", "d">>,
          <<"w", "h", "e", "n", " ", "w", "a", "s">>,
          <<"w", "h", "e", "n", " ", "w", "e", "r", "e">>,
          <<"w", "h", "e", "n", " ", "w", "i", "l", "l">>}],
      \* /^where (is|are|do|does|can|to)\b/
      [intent |-> "informational", subType |-> "location", confidence |-> 90,
       anchored |-> TRUE,
       alts |-> {
          <<"w", "h", "e", "r", "e", " ", "i", "s">>,
          <<"w", "h", "e", "r", "e", " ", "a", "r", "e">>,
          <<"w", "h", "e", "r", "e", " ", "d", "o">>,
          <<"w", "h", "e", "r", "e", " ", "d", "o", "e", "s">>,
          <<"w", "h", "e", "r", "e", " ", "c", "a", "n">>,
          <<"w", "h", "e", "r", "e", " ", "t", "o">>}],
      \* /^who (is|are|was|were)\b/
      [intent |-> "informational", subType |-> "identity", confidence |-> 90,
       anchored |-> TRUE,
       alts |-> {
          <<"w", "h", "o", " ", "i", "s">>,
          <<"w", "h", "o", " ", "a", "r", "e">>,
          <<"w", "h", "o", " ", "w", "a", "s">>,
          <<"w", "h", "o", " ", "w", "e", "r", "e">>}],
      \* /\b(guide|tutorial|walkthrough|step by step)\b/
      [intent |-> "informational", subType |-> "guide", confidence |-> 85,
       anchored |-> FALSE,
       alts |-> {
          <<"g", "u", "i", "d", "e">>,
          <<"t", "u", "t", "o", "r", "i", "a", "l">>,
          <<"w", "a", "l", "k", "t", "h", "r", "o", "u", "g", "h">>,
          <<"s", "t", "e", "p", " ", "b", "y", " ", "s", "t", "e", "p">>}],
      \* /\b(learn|learning|understand|explained|explanation)\b/
      [intent |-> "informational", subType |-> "learning", confidence |-> 80,
       anchored |-> FALSE,
       alts |-> {
          <<"l", "e", "a", "r", "n">>,
          <<"l", "e", "a", "r", "n", "i", "n", "g">>,
          <<"u", "n", "d", "e", "r", "s", "t", "a", "n", "d">>,
          <<"e", "x", "p", "l", "a", "i", "n", "e", "d">>,
          <<"e", "x", "p", "l", "a", "n", "a", "t", "i", "o", "n">>}],
      \* /\b(meaning|definition|define|what does .+ mean)\b/
      [intent |-> "informational", subType |-> "definition", confidence |-> 85,
       anchored |-> FALSE,
       alts |-> {
          <<"m", "e", "a", "n", "i", "n", "g">>,
          <<"d", "e", "f", "i", "n", "i", "t", "i", "o", "n">>,
          <<"d", "e", "f", "i", "n", "e">>,
          <<"w", "h", "a", "t", " ", "d", "o", "e", "s", " ", "plus:any", " ", "m", "e", "a", "n">>}],
      \* /\b(example|examples|sample|template)\b/
      [intent |-> "informational", subType |-> "example", confidence |-> 75,
       anchored |-> FALSE,
       alts |-> {
          <<"e", "x", "a", "m", "p", "l", "e">>,
          <<"e", "x", "a", "m", "p", "l", "e", "s">>,
          <<"s", "a", "m", "p", "l", "e">>,
          <<"t", "e", "m", "p", "l", "a", "t", "e">>}]
    >>

\* Does the token of a + quantifier match the character c?
ClassHas(token, c) ==
    CASE token = "plus:space" -> c \in WhiteSpace
      [] token = "plus:digit" -> c \in Digits
      [] token = "plus:any" -> c \notin {"\n", "\r"}

\* The positions at which a match of alt[k..] that starts at pos can end
\* (a position is the index of the next character to read).
RECURSIVE MatchEnds(_, _, _, _)
MatchEnds(alt, k, str, pos) ==
    IF k > Len(alt) THEN {pos}
    ELSE LET token == alt[k]
         IN  IF token \in {"plus:space", "plus:digit", "plus:any"}
             THEN UNION {MatchEnds(alt, k + 1, str, e) :
                            e \in {e \in (pos + 1)..(Len(str) + 1) :
                                      \A i \in pos..(e - 1) : ClassHas(token, str[i])}}
             ELSE IF token \in {"opt:.", "opt:s"}
             THEN MatchEnds(alt, k + 1, str, pos)
                  \cup (IF pos <= Len(str) /\ str[pos] = (IF token = "opt:." THEN "." ELSE "s")
                        THEN MatchEnds(alt, k + 1, str, pos + 1)
                        ELSE {})
             ELSE IF pos <= Len(str) /\ str[pos] = token
                  THEN MatchEnds(alt, k + 1, str, pos + 1)
                  ELSE {}

\* \b at a position: exactly one of the characters around it is a word
\* character.
WordBoundary(str, pos) ==
    LET before == pos > 1 /\ IsWordChar(str[pos - 1])
        after == pos <= Len(str) /\ IsWordChar(str[pos])
    IN  before # after

\* rule.pattern.test(str)
PatternTest(rule, str) ==
    \E alt \in rule.alts :
        \E start \in (IF rule.anchored THEN {1} ELSE 1..(Len(str) + 1)) :
            \E e \in MatchEnds(alt, 1, str, start) :
                /\ rule.anchored \/ WordBoundary(str, start)
                /\ WordBoundary(str, e)

SplitCountOne(str) == 1

\* normalized.split(/\s+/).length: one more than the number of maximal runs
\* of white space.
SplitCount(str) ==
    1 + Cardinality({i \in 1..Len(str) :
                        /\ str[i] \in WhiteSpace
                        /\ i = 1 \/ str[i - 1] \notin WhiteSpace})

MkClassified(query, intent, subType, confidence) ==
    [query |-> query, intent |-> intent, subType |-> subType,
     confidence |-> confidence]

\* The fall-through after the rule loop.
classifyUnmatched(query, normalized) ==
    IF SplitCount(normalized) = 1 /\ Len(normalized) > 2
    THEN MkClassified(query, "navigational", Some("brand"), 40)
    ELSE MkClassified(query, "informational", None, 30)

\* The rule loop from rule i on.
RECURSIVE ClassifyLoop(_, _, _)
ClassifyLoop(query, normalized, i) ==
    IF i > Len(CLASSIFICATION_RULES) THEN classifyUnmatched(query, normalized)
    ELSE IF PatternTest(CLASSIFICATION_RULES[i], normalized)
    THEN MkClassified(query, CLASSIFICATION_RULES[i].intent,
                      Some(CLASSIFICATION_RULES[i].subType),
                      CLASSIFICATION_RULES[i].confidence)
    ELSE ClassifyLoop(query, normalized, i + 1)

\* The rule loop run backwards, so that the last matching rule wins.
RECURSIVE ClassifyLoopBackwards(_, _, _)
ClassifyLoopBackwards(query, normalized, i) ==
    IF i < 1 THEN classifyUnmatched(query, normalized)
    ELSE IF PatternTest(CLASSIFICATION_RULES[i], normalized)
    THEN MkClassified(query, CLASSIFICATION_RULES[i].intent,
                      Some(CLASSIFICATION_RULES[i].subType),
                      CLASSIFICATION_RULES[i].confidence)
    ELSE ClassifyLoopBackwards(query, normalized, i - 1)

classifyQueryLastMatch(query) ==
    ClassifyLoopBackwards(query, trim(toLowerCase(query)),
                          Len(CLASSIFICATION_RULES))

classifyQuery(query) ==
    ClassifyLoop(query, trim(toLowerCase(query)), 1)

-----------------------------------------------------------------------------
(* CTR benchmarks                                                          *)
(* Fixed point: position in tenths, expectedCtr in thousandths, actualCtr  *)
(* and ctrGap in 1e-4; ctrRatio is an exact fraction.                      *)

\* In thousandths, by rounded position.
CTR_BENCHMARKS == <<317, 247, 187, 136, 95, 62, 42, 31, 24, 22>>

PAGE_TWO_CTR == 15

DEEP_CTR == 5

getExpectedCtrUnclamped(position) ==
    LET roundedPosition == RoundTenths(position)
    IN  IF roundedPosition \in 1..Len(CTR_BENCHMARKS)
        THEN CTR_BENCHMARKS[roundedPosition]
        ELSE IF roundedPosition <= 20 THEN PAGE_TWO_CTR
        ELSE DEEP_CTR

getExpectedCtr(position) ==
    LET roundedPosition == IF RoundTenths(position) > 1 THEN RoundTenths(position)
                           ELSE 1
    IN  IF roundedPosition \in 1..Len(CTR_BENCHMARKS)
        THEN CTR_BENCHMARKS[roundedPosition]
        ELSE IF roundedPosition <= 20 THEN PAGE_TWO_CTR
        ELSE DEEP_CTR

getCtrPerformanceLabelStrict(ratio) ==
    IF RLess(Rat(15, 10), ratio) THEN "excellent"
    ELSE IF RLess(Rat(11, 10), ratio) THEN "good"
    ELSE IF RLess(Rat(8, 10), ratio) THEN "average"
    ELSE IF RLess(Rat(5, 10), ratio) THEN "below_average"
    ELSE "poor"

getCtrPerformanceLabel(ratio) ==
    IF ~RLess(ratio, Rat(15, 10)) THEN "excellent"
    ELSE IF ~RLess(ratio, Rat(11, 10)) THEN "good"
    ELSE IF ~RLess(ratio, Rat(8, 10)) THEN "average"
    ELSE IF ~RLess(ratio, Rat(5, 10)) THEN "below_average"
    ELSE "poor"

analyzeCtr(position, actualCtr) ==
    LET expectedCtr == getExpectedCtr(position)
        ctrGap == actualCtr - 10 * expectedCtr
        ctrRatio == IF expectedCtr > 0 THEN Rat(actualCtr, 10 * expectedCtr)
                    ELSE RInt(0)
    IN  [position |-> position,
         actualCtr |-> actualCtr,
         expectedCtr |-> expectedCtr,
         ctrGap |-> ctrGap,
         ctrRatio |-> ctrRatio,
         performance |-> getCtrPerformanceLabel(ctrRatio)]

-----------------------------------------------------------------------------
(* CacheManager                                                            *)
(* The Map is the sequence of its entries [key, value, expiresAt] in        *)
(* insertion order; times are in milliseconds.                             *)

DEFAULT_MAX_ENTRIES == 500

\* Map.prototype.has
StoreHas(entries, key) == \E i \in 1..Len(entries) : entries[i].key = key

\* Map.prototype.delete
StoreDelete(entries, key) == SelectSeq(entries, LAMBDA e : e.key # key)

\* Map.prototype.set: a new key goes to the end, a key the Map has keeps
\* its place.
StoreSet(entries, entry) ==
    IF StoreHas(entries, entry.key)
    THEN [i \in 1..Len(entries) |->
             IF entries[i].key = entry.key THEN entry ELSE entries[i]]
    ELSE Append(entries, entry)

\* String.prototype.startsWith
startsWith(str, prefix) ==
    /\ Len(prefix) <= Len(str)
    /\ SubSeq(str, 1, Len(prefix)) = prefix

isExpiredLate(entry, time) == time > entry.expiresAt

\* Date.now() >= entry.expiresAt
isExpired(entry, time) == time >= entry.expiresAt

\* Pass 2 of evictIfNeeded: drop the first key while at capacity.
RECURSIVE EvictOldest(_, _)
EvictOldest(entries, max) ==
    IF Len(entries) >= max /\ Len(entries) > 0
    THEN EvictOldest(Tail(entries), max)
    ELSE entries

\* evictIfNeeded: the Map after pass 1 (purged) and after pass 2 (kept).
evictIfNeeded(entries, max, time) ==
    IF Len(entries) < max THEN [purged |-> entries, kept |-> entries]
    ELSE LET purged == SelectSeq(entries, LAMBDA e : ~isExpired(e, time))
         IN  [purged |-> purged, kept |-> EvictOldest(purged, max)]

\* set that makes room before it removes the key's own entry.
CacheSetRoomFirst(entries, max, time, key, value, ttlMs) ==
    LET room == evictIfNeeded(entries, max, time)
        entry == [key |-> key, value |-> value, expiresAt |-> time + ttlMs]
    IN  [purged |-> room.purged,
         store |-> Append(StoreDelete(room.kept, key), entry)]

\* The Map after set(key, value, ttlMs) at a time.
CacheSet(entries, max, time, key, value, ttlMs) ==
    LET removed == IF StoreHas(entries, key) THEN StoreDelete(entries, key)
                   ELSE entries
        room == evictIfNeeded(removed, max, time)
        entry == [key |-> key, value |-> value, expiresAt |-> time + ttlMs]
    IN  [purged |-> room.purged, store |-> StoreSet(room.kept, entry)]

\* get that leaves a hit entry at its place in the Map.
CacheGetNoRefresh(entries, time, key) ==
    IF ~StoreHas(entries, key)
    THEN [store |-> entries, result |-> None, hit |-> FALSE]
    ELSE LET entry == entries[CHOOSE i \in 1..Len(entries) :
                                  entries[i].key = key]
         IN  IF isExpired(entry, time)
             THEN [store |-> StoreDelete(entries, key), result |-> None,
                   hit |-> FALSE]
             ELSE [store |-> entries, result |-> Some(entry.value),
                   hit |-> TRUE]

\* get that counts an expired entry as a hit.
CacheGetExpiredHit(entries, time, key) ==
    IF ~StoreHas(entries, key)
    THEN [store |-> entries, result |-> None, hit |-> FALSE]
    ELSE LET entry == entries[CHOOSE i \in 1..Len(entries) :
                                  entries[i].key = key]
         IN  IF isExpired(entry, time)
             THEN [store |-> StoreDelete(entries, key), result |-> None,
                   hit |-> TRUE]
             ELSE [store |-> StoreSet(StoreDelete(entries, key), entry),
                   result |-> Some(entry.value), hit |-> TRUE]

\* get(key) at a time: the Map after it, the returned value (None is
\* undefined) and whether it was a hit.
CacheGet(entries, time, key) ==
    IF ~StoreHas(entries, key)
    THEN [store |-> entries, result |-> None, hit |-> FALSE]
    ELSE LET entry == entries[CHOOSE i \in 1..Len(entries) :
                                  entries[i].key = key]
         IN  IF isExpired(entry, time)
             THEN [store |-> StoreDelete(entries, key), result |-> None,
                   hit |-> FALSE]
             ELSE [store |-> StoreSet(StoreDelete(entries, key), entry),
                   result |-> Some(entry.value), hit |-> TRUE]

-----------------------------------------------------------------------------
(* RateLimiter                                                             *)
(* Token counts are in thousandths of a token and times in milliseconds:   *)
(* (elapsed / 1000) * tokensPerSecond tokens are elapsed * tokensPerSecond *)
(* thousandths.  The clock never goes back.                                *)

Min(a, b) == IF a < b THEN a ELSE b

\* refill() without the cap of the bucket.
refillUncapped(held, elapsed, rate, burst) == held + elapsed * rate

\* refill(): the token count after it, elapsed ms after the last refill.
refill(held, elapsed, rate, burst) == Min(burst * 1000, held + elapsed * rate)

\* delayMs == (1 / this.tokensPerSecond) * 1_000
delayMs(rate) == 1000 \div rate

\* The time after which a refill fills the bucket whatever it held.
FillTime(rate, burst) == (burst * 1000 + rate - 1) \div rate

\* The number of a new acquire() call.
NewCallId ==
    IF logging THEN issued + 1
    ELSE CHOOSE id \in 1..(MaxQueue + 1) :
             /\ \A i \in 1..Len(queue) : queue[i] # id
             /\ \A smaller \in 1..(id - 1) :
                    \E i \in 1..Len(queue) : queue[i] = smaller

-----------------------------------------------------------------------------
(* Sites endpoints                                                         *)
(* A SiteInfo list or a SiteInfo carries the siteVersion of the API state  *)
(* it was read from (asOf).  A call is at pc "acquire" (awaiting           *)
(* rateLimiter.acquire()), "sent" (request issued), "answered" (the API    *)
(* has handled it, the response is on its way), "resolved" or "rejected".  *)

\* buildSitesKey(siteUrl?), with None for a missing argument.
buildSitesKey(siteUrl) ==
    IF siteUrl # None THEN <<"sites|">> \o Val(siteUrl)
    ELSE <<"sites|", "__all__">>

\* The cache key of a listSites or getSite call.
SiteCacheKey(fn, siteUrl) ==
    IF fn = "listSites" THEN buildSitesKey(None) ELSE buildSitesKey(Some(siteUrl))

\* The API's answer to a request: [ok, data, entry, version], the last two
\* being the account's sites and the version after it.
ApiAnswer(fn, siteUrl, entry, version) ==
    CASE fn = "listSites" ->
            [ok |-> TRUE, data |-> [sites |-> entry, asOf |-> version],
             entry |-> entry, version |-> version]
      [] fn = "getSite" ->
            [ok |-> siteUrl \in entry,
             data |-> [sites |-> {siteUrl}, asOf |-> version],
             entry |-> entry, version |-> version]
      [] fn = "addSite" ->
            [ok |-> TRUE, data |-> [sites |-> {}, asOf |-> version + 1],
             entry |-> entry \cup {siteUrl}, version |-> version + 1]
      [] fn = "deleteSite" ->
            IF siteUrl \in entry
            THEN [ok |-> TRUE, data |-> [sites |-> {}, asOf |-> version + 1],
                  entry |-> entry \ {siteUrl}, version |-> version + 1]
            ELSE [ok |-> FALSE, data |-> [sites |-> {}, asOf |-> version],
                  entry |-> entry, version |-> version]

-----------------------------------------------------------------------------
(* Search analytics pagination                                             *)
(* A page of rows is [startRow, rows]: the offset it was asked at and the  *)
(* number of rows received, which are the API's rows from that offset on;  *)
(* an array of rows is the sequence of its pages.                          *)

API_MAX_ROW_LIMIT == 25000

\* allRows.length
RowCount(pages) == RSumOf([p \in 1..Len(pages) |-> RInt(pages[p].rows)]).n

\* A page size that takes no account of the rows already collected.
pageSizeWhole(desiredLimit, collected) == API_MAX_ROW_LIMIT

\* Math.min(API_MAX_ROW_LIMIT, desiredLimit - allRows.length)
pageSize(desiredLimit, collected) ==
    Min(API_MAX_ROW_LIMIT, desiredLimit - collected)

\* request.rowLimit ?? API_MAX_ROW_LIMIT
desiredLimitOf(req) ==
    IF req.rowLimit # None THEN Val(req.rowLimit) ELSE API_MAX_ROW_LIMIT

-----------------------------------------------------------------------------
(* Inputs of the sort/dedup specification *)

Type_title == <<"title_optimization">>

Type_expansion == <<"content_expansion">>

\* Recommendations that differ in the sort keys only.
SortRecSpace ==
    {MkRec(Type_title, p, "low",
           MkData([impressions |-> i[1], totalImpressions |-> i[2]])) :
        p \in Priorities,
        i \in {<<None, None>>, <<None, Some(7)>>, <<Some(0), Some(7)>>,
               <<Some(5), None>>}}

\* Recommendations that differ in the dedup key and the priority.
DedupRecSpace ==
    {MkRec(t, p, "low",
           MkData([query |-> k[1], page |-> k[2], impressions |-> Some(5)])) :
        t \in {Type_title, Type_expansion},
        p \in {"high", "medium"},
        k \in {<<None, None>>, <<None, Some(Str_c)>>,
               <<Some(Str_empty), Some(Str_c)>>, <<Some(Str_a), Some(Str_c)>>,
               <<Some(Str_a_b), Some(Str_c)>>, <<Some(Str_a), Some(Str_b_c)>>}}

RecSpace == SortRecSpace \cup DedupRecSpace

RecLists == UNION {[1..n -> RecSpace] : n \in 0..MaxRecs}

-----------------------------------------------------------------------------
(* Specification of sortRecommendations / deduplicateRecommendations *)

\* The variables of the groups declared after the scorer's while they are
\* not under study; g names the one group that is.
OthersIdle(g) ==
    /\ IF g = "trend" THEN TRUE ELSE trendPoints = <<>> /\ trendOut = None
    /\ IF g = "classify" THEN TRUE
       ELSE classifyInput = <<>> /\ classified = None
    /\ IF g = "ctr" THEN TRUE
       ELSE ctrPosition = 0 /\ ctrActual = 0 /\ ctrResult = None
    /\ IF g = "cache" THEN TRUE
       ELSE /\ store = <<>>
            /\ maxEntries = DEFAULT_MAX_ENTRIES
            /\ cacheHits = 0
            /\ cacheMisses = 0
            /\ now = 0
            /\ lastGet = None
            /\ calls = 0
            /\ lastSet = <<>>
            /\ lastCall = <<>>
            /\ lastUse = <<>>
            /\ gets = 0
    /\ IF g = "limiter" THEN TRUE
       ELSE /\ tokens = 0
            /\ maxBurst = 1
            /\ tokensPerSecond = 1000
            /\ sinceRefill = 0
            /\ queue = <<>>
            /\ timers = <<>>
            /\ logging = FALSE
            /\ clock = 0
            /\ issued = 0
            /\ grants = <<>>
    /\ IF g = "sites" THEN TRUE
       ELSE /\ siteEntry = {}
            /\ siteVersion = 0
            /\ siteCache = <<>>
            /\ siteCalls = <<>>
            /\ siteResolved = 0
    /\ IF g = "query" THEN TRUE
       ELSE /\ saRequest = None
            /\ saCache = None
            /\ saPc = "idle"
            /\ allRows = <<>>
            /\ startRow = None
            /\ saAsked = <<>>
            /\ saReturned = None

\* The same groups left as they are by a step of another group.
OthersUnchanged(g) ==
    /\ IF g = "trend" THEN TRUE ELSE UNCHANGED <<trendPoints, trendOut>>
    /\ IF g = "classify" THEN TRUE ELSE UNCHANGED <<classifyInput, classified>>
    /\ IF g = "ctr" THEN TRUE
       ELSE UNCHANGED <<ctrPosition, ctrActual, ctrResult>>
    /\ IF g = "cache" THEN TRUE
       ELSE UNCHANGED <<store, maxEntries, cacheHits, cacheMisses, now, lastGet,
                        calls, lastSet, lastCall, lastUse, gets>>
    /\ IF g = "limiter" THEN TRUE
       ELSE UNCHANGED <<tokens, maxBurst, tokensPerSecond, sinceRefill, queue,
                        timers, logging, clock, issued, grants>>
    /\ IF g = "sites" THEN TRUE
       ELSE UNCHANGED <<siteEntry, siteVersion, siteCache, siteCalls,
                        siteResolved>>
    /\ IF g = "query" THEN TRUE
       ELSE UNCHANGED <<saRequest, saCache, saPc, allRows, startRow, saAsked,
                        saReturned>>

\* The variables of the scorer while it is not under study.
ScoreIdle ==
    /\ params = None
    /\ scoreResult = None
    /\ prev = None

\* The variables of generateRecommendations while it is not under study.
GenIdle ==
    /\ rows = <<>>
    /\ ctrAnalyses = None
    /\ trends = None
    /\ recommendations = <<>>
    /\ generated = FALSE

InitRecs ==
    /\ recs \in RecLists
    /\ out = <<>>
    /\ op = "none"
    /\ GenIdle
    /\ ScoreIdle
    /\ OthersIdle("none")

Sort ==
    /\ op = "none"
    /\ out' = SortCall(recs).returned
    /\ recs' = SortCall(recs).argument
    /\ op' = "sort"
    /\ UNCHANGED <<genVars, scoreVars>>
    /\ OthersUnchanged("none")

Dedup ==
    /\ op = "none"
    /\ out' = DedupCall(recs).returned
    /\ recs' = DedupCall(recs).argument
    /\ op' = "dedup"
    /\ UNCHANGED <<genVars, scoreVars>>
    /\ OthersUnchanged("none")

NextRecs == Sort \/ Dedup

SpecRecs == InitRecs /\ [][NextRecs]_vars

-----------------------------------------------------------------------------
(* Inputs of the generateRecommendations specification *)

Str_How_a == <<"H", "o", "w", " ", "a">>

Str_z == <<"z">>

\* (position, impressions, ctr) of the rows that exercise the per-row rules:
\* top 3 with low and with high raw ctr, top 3 with few impressions, between
\* 3 and 4, page one, page two.
RuleNumbers ==
    {<<30, 100, 10>>, <<30, 100, 100>>, <<30, 5, 10>>, <<35, 100, 10>>,
     <<50, 1000, 10>>, <<150, 1000, 10>>}

\* (query, page) pairs: a question, two queries on one page, and two
\* different pairs whose query + "::" + page texts are equal.
RulePairs ==
    {<<Str_How_a, Str_c>>, <<Str_a, Str_c>>, <<Str_a_b, Str_c>>,
     <<Str_a, Str_b_c>>}

RuleRowSpace ==
    {MkRow(k[1], k[2], 0, n[2], n[3], n[1]) : k \in RulePairs, n \in RuleNumbers}

\* Rows for the trend rule: they differ in what a trend key can match and in
\* the impressions the rule reads.
TrendRowSpace ==
    {MkRow(q, p, 0, i, 10, 50) :
        q \in {Str_a, Str_a_b}, p \in {Str_c, Str_b_c}, i \in {50, 100}}

SeqsUpTo(S, n) == UNION {[1..k -> S] : k \in 0..n}

\* A CtrAnalysis; ctrRatio (in thousandths) is the one field the engine reads.
CtrAnalysisSpace == {[ctrRatio |-> 500], [ctrRatio |-> 700]}

\* A TrendAnalysis; direction is the one field the rules branch on.
TrendSpace == {[direction |-> d] : d \in {"rising", "falling", "stable"}}

TrendKeys == {Str_a, Str_c, Str_z}

\* The entries of a Map: no key twice.
TrendMaps ==
    {m \in SeqsUpTo([key : TrendKeys, trend : TrendSpace], MaxTrends) :
        \A i, j \in 1..Len(m) : i # j => m[i].key # m[j].key}

-----------------------------------------------------------------------------
(* Specification of generateRecommendations *)

\* The variables of sort/dedup while they are not under study.
RecsIdle ==
    /\ recs = <<>>
    /\ out = <<>>
    /\ op = "none"

\* Either the per-row rules are exercised (with or without ctrAnalyses, no
\* trends) or the trend rule is (with trends, no ctrAnalyses).
InitGen ==
    /\ \/ /\ rows \in SeqsUpTo(RuleRowSpace, MaxRows)
          /\ ctrAnalyses \in
                {None} \cup {Some(a) : a \in SeqsUpTo(CtrAnalysisSpace, Len(rows))}
          /\ trends = None
       \/ /\ rows \in SeqsUpTo(TrendRowSpace, MaxRows)
          /\ ctrAnalyses = None
          /\ trends \in {Some(m) : m \in TrendMaps}
    /\ recommendations = <<>>
    /\ generated = FALSE
    /\ RecsIdle
    /\ ScoreIdle
    /\ OthersIdle("none")

Generate ==
    /\ ~generated
    /\ recommendations' = generateRecommendations(rows, ctrAnalyses, trends)
    /\ generated' = TRUE
    /\ UNCHANGED <<rows, ctrAnalyses, trends, recVars, scoreVars>>
    /\ OthersUnchanged("none")

NextGen == Generate

SpecGen == InitGen /\ [][NextGen]_vars

-----------------------------------------------------------------------------
(* Specification of scoreOpportunity *)

\* Trend values in 1e-4: out of range, the ends of the range, and small
\* magnitudes around 0.
TrendValues == {-20000, -10000, -20, -5, -1, 1, 5, 20, 10000}

ParamSpace ==
    [impressions : {0, 99, 5000, 99999, 1000000},
     clicks : {0},
     ctr : {0, 20, 500},
     position : {0, 5, 10, 25, 100, 1000},
     expectedCtr : {None, Some(0), Some(100)},
     trend : {None} \cup {Some(t) : t \in TrendValues},
     queryCount : {None, Some(0), Some(999), Some(5000)}]

InitScore ==
    /\ params \in ParamSpace
    /\ scoreResult = None
    /\ prev = None
    /\ RecsIdle
    /\ GenIdle
    /\ OthersIdle("none")

\* The caller scores the opportunity it holds.
Score ==
    /\ scoreResult = None
    /\ scoreResult' = Some(scoreOpportunity(params))
    /\ UNCHANGED <<params, prev, recVars, genVars>>
    /\ OthersUnchanged("none")

\* The caller keeps the outcome and scores the same opportunity again with
\* another trend.
ChangeTrend ==
    /\ scoreResult # None
    /\ prev = None
    /\ \E t \in TrendValues :
          /\ params.trend # Some(t)
          /\ params' = [params EXCEPT !.trend = Some(t)]
    /\ prev' = Some([params |-> params, result |-> Val(scoreResult)])
    /\ scoreResult' = None
    /\ UNCHANGED <<recVars, genVars>>
    /\ OthersUnchanged("none")

NextScore == Score \/ ChangeTrend

SpecScore == InitScore /\ [][NextScore]_vars

-----------------------------------------------------------------------------
(* Specification of detectTrend *)

\* TrendPoints: three days, one of them after a gap, and three values.
PointSpace == [date : {1, 2, 4}, value : {0, 1, 5}]

InitTrend ==
    /\ trendPoints \in SeqsUpTo(PointSpace, MaxPoints)
    /\ trendOut = None
    /\ RecsIdle
    /\ GenIdle
    /\ ScoreIdle
    /\ OthersIdle("trend")

DetectTrend ==
    /\ trendOut = None
    /\ trendOut' = Some(detectTrend(trendPoints))
    /\ UNCHANGED <<trendPoints, recVars, genVars, scoreVars>>
    /\ OthersUnchanged("trend")

SpecTrend == InitTrend /\ [][DetectTrend]_vars

-----------------------------------------------------------------------------
(* Specification of classifyQuery *)

\* Phrases of the queries: phrases of several rules' patterns, words of
\* none, an upper-case spelling, and the empty phrase (which doubles a blank
\* or puts one at an end of the query).
PhraseSpace ==
    {<<"h", "o", "w", " ", "t", "o">>, <<"F", "i", "x">>,
     <<"b", "e", "s", "t", " ", "b", "u", "y">>, <<"l", "o", "g", "i", "n">>,
     <<"t", "o", "p", " ", "1", "0">>, <<"v", "s", ".">>,
     <<"g", "i", "t", "h", "u", "b">>, <<"a", "b">>, <<"x">>, <<>>}

\* phrases.join(" ")
RECURSIVE JoinPhrases(_)
JoinPhrases(phrases) ==
    IF phrases = <<>> THEN <<>>
    ELSE IF Len(phrases) = 1 THEN phrases[1]
    ELSE phrases[1] \o <<" ">> \o JoinPhrases(Tail(phrases))

InitClassify ==
    /\ classifyInput \in {JoinPhrases(phrases) :
                             phrases \in SeqsUpTo(PhraseSpace, MaxPhrases)}
    /\ classified = None
    /\ RecsIdle
    /\ GenIdle
    /\ ScoreIdle
    /\ OthersIdle("classify")

Classify ==
    /\ classified = None
    /\ classified' = Some(classifyQuery(classifyInput))
    /\ UNCHANGED <<classifyInput, recVars, genVars, scoreVars>>
    /\ OthersUnchanged("classify")

SpecClassify == InitClassify /\ [][Classify]_vars

-----------------------------------------------------------------------------
(* Specification of analyzeCtr *)

\* Positions in tenths: below 1, halves between two ranks, ranks of the
\* table, of page two and beyond.
PositionSpace ==
    {-15, -5, 0, 4, 5, 10, 14, 15, 16, 20, 45, 50, 94, 95, 100, 104, 105, 150,
     200, 204, 205, 210, 1000}

\* Actual CTRs in 1e-4: 0 and the label thresholds of the expected CTRs
\* 0.005, 0.015 and 0.022, with neighbours.
ActualCtrSpace ==
    {0, 24, 25, 26, 39, 40, 41, 55, 75, 76, 110, 120, 165, 176, 225, 242, 330,
     3170, 5000}

InitCtr ==
    /\ ctrPosition \in PositionSpace
    /\ ctrActual \in ActualCtrSpace
    /\ ctrResult = None
    /\ RecsIdle
    /\ GenIdle
    /\ ScoreIdle
    /\ OthersIdle("ctr")

AnalyzeCtr ==
    /\ ctrResult = None
    /\ ctrResult' = Some(analyzeCtr(ctrPosition, ctrActual))
    /\ UNCHANGED <<ctrPosition, ctrActual, recVars, genVars, scoreVars>>
    /\ OthersUnchanged("ctr")

SpecCtr == InitCtr /\ [][AnalyzeCtr]_vars

-----------------------------------------------------------------------------
(* Specification of CacheManager *)

\* Cache keys: one is a prefix of another.
KeySpace == {<<"a">>, <<"a", "b">>, <<"b">>}


\* new CacheManager(maxEntries)
InitCache ==
    /\ store = <<>>
    /\ maxEntries \in {1, 2}
    /\ cacheHits = 0
    /\ cacheMisses = 0
    /\ now = 0
    /\ lastGet = None
    /\ calls = 0
    /\ lastSet = [k \in KeySpace |-> None]
    /\ lastCall = [op |-> "none", key |-> <<>>, before |-> <<>>]
    /\ lastUse = <<>>
    /\ gets = 0
    /\ RecsIdle
    /\ GenIdle
    /\ ScoreIdle
    /\ OthersIdle("cache")

\* cache.set(key, value, ttlMs)
CacheSetCall ==
    /\ calls < MaxCalls
    /\ \E key \in KeySpace, value \in {"v", "w"}, ttlMs \in {0, 2} :
          LET r == CacheSet(store, maxEntries, now, key, value, ttlMs)
              left == {r.store[i].key : i \in 1..Len(r.store)}
              lru == {r.purged[i].key : i \in 1..Len(r.purged)} \ left
          IN  /\ store' = r.store
              /\ lastSet' = [k \in KeySpace |->
                                IF k = key
                                THEN Some([value |-> value, at |-> now,
                                           ttlMs |-> ttlMs])
                                ELSE IF k \in lru THEN None
                                ELSE lastSet[k]]
              /\ lastCall' = [op |-> "set", key |-> key, before |-> store]
              /\ lastUse' = Append(SelectSeq(lastUse,
                                    LAMBDA k : k # key /\ k \in left), key)
    /\ lastGet' = None
    /\ calls' = calls + 1
    /\ UNCHANGED <<maxEntries, cacheHits, cacheMisses, now, gets, recVars,
                   genVars, scoreVars>>
    /\ OthersUnchanged("cache")

\* cache.get(key)
CacheGetCall ==
    /\ calls < MaxCalls
    /\ \E key \in KeySpace :
          LET r == CacheGet(store, now, key)
          IN  /\ store' = r.store
              /\ cacheHits' = IF r.hit THEN cacheHits + 1 ELSE cacheHits
              /\ cacheMisses' = IF r.hit THEN cacheMisses ELSE cacheMisses + 1
              /\ lastGet' = Some([key |-> key, result |-> r.result])
              /\ lastCall' = [op |-> "get", key |-> key, before |-> <<>>]
              /\ lastUse' = LET others == SelectSeq(lastUse,
                                                      LAMBDA k : k # key)
                             IN  IF r.hit THEN Append(others, key)
                                 ELSE others
    /\ gets' = gets + 1
    /\ calls' = calls + 1
    /\ UNCHANGED <<maxEntries, now, lastSet, recVars, genVars, scoreVars>>
    /\ OthersUnchanged("cache")

\* cache.delete(key)
CacheDeleteCall ==
    /\ calls < MaxCalls
    /\ \E key \in KeySpace :
          /\ store' = StoreDelete(store, key)
          /\ lastSet' = [lastSet EXCEPT ![key] = None]
          /\ lastCall' = [op |-> "delete", key |-> key, before |-> <<>>]
          /\ lastUse' = SelectSeq(lastUse, LAMBDA k : k # key)
    /\ lastGet' = None
    /\ calls' = calls + 1
    /\ UNCHANGED <<maxEntries, cacheHits, cacheMisses, now, gets, recVars,
                   genVars, scoreVars>>
    /\ OthersUnchanged("cache")

\* cache.invalidatePrefix(prefix)
CacheInvalidateCall ==
    /\ calls < MaxCalls
    /\ \E prefix \in {<<>>, <<"a">>} :
          /\ store' = SelectSeq(store, LAMBDA e : ~startsWith(e.key, prefix))
          /\ lastSet' = [k \in KeySpace |->
                            IF startsWith(k, prefix) THEN None ELSE lastSet[k]]
          /\ lastCall' = [op |-> "invalidatePrefix", key |-> prefix,
                          before |-> <<>>]
          /\ lastUse' = SelectSeq(lastUse,
                                  LAMBDA k : ~startsWith(k, prefix))
    /\ lastGet' = None
    /\ calls' = calls + 1
    /\ UNCHANGED <<maxEntries, cacheHits, cacheMisses, now, gets, recVars,
                   genVars, scoreVars>>
    /\ OthersUnchanged("cache")

\* cache.clear()
CacheClearCall ==
    /\ calls < MaxCalls
    /\ store' = <<>>
    /\ cacheHits' = 0
    /\ cacheMisses' = 0
    /\ lastSet' = [k \in KeySpace |-> None]
    /\ lastCall' = [op |-> "clear", key |-> <<>>, before |-> <<>>]
    /\ lastUse' = <<>>
    /\ gets' = 0
    /\ lastGet' = None
    /\ calls' = calls + 1
    /\ UNCHANGED <<maxEntries, now, recVars, genVars, scoreVars>>
    /\ OthersUnchanged("cache")

\* A millisecond passes.
Tick ==
    /\ now < MaxTime
    /\ now' = now + 1
    /\ lastGet' = None
    /\ lastCall' = [op |-> "none", key |-> <<>>, before |-> <<>>]
    /\ UNCHANGED <<store, maxEntries, cacheHits, cacheMisses, calls, lastSet,
                   lastUse, gets, recVars, genVars, scoreVars>>
    /\ OthersUnchanged("cache")

NextCache ==
    \/ CacheSetCall
    \/ CacheGetCall
    \/ CacheDeleteCall
    \/ CacheInvalidateCall
    \/ CacheClearCall
    \/ Tick

SpecCache == InitCache /\ [][NextCache]_vars

-----------------------------------------------------------------------------
(* Specification of RateLimiter *)

\* new RateLimiter(tokensPerSecond, maxBurst)
InitLimiter ==
    /\ tokensPerSecond \in {500, 1000}
    /\ maxBurst \in {1, 2}
    /\ tokens = maxBurst * 1000
    /\ sinceRefill = 0
    /\ queue = <<>>
    /\ timers = <<>>
    /\ logging \in BOOLEAN
    /\ clock = 0
    /\ issued = 0
    /\ grants = <<>>
    /\ RecsIdle
    /\ GenIdle
    /\ ScoreIdle
    /\ OthersIdle("limiter")

\* limiter.acquire() up to its return or its await.
Acquire ==
    /\ logging => issued < MaxAcquires
    /\ LET held == refill(tokens, sinceRefill, tokensPerSecond, maxBurst)
       IN  IF held >= 1000
           THEN /\ tokens' = held - 1000
                /\ grants' = IF logging
                             THEN Append(grants, [id |-> NewCallId, at |-> clock])
                             ELSE grants
                /\ UNCHANGED <<queue, timers>>
           ELSE /\ Len(queue) < MaxQueue
                /\ tokens' = held
                /\ queue' = Append(queue, NewCallId)
                /\ timers' = IF Len(queue) + 1 # 1 THEN timers
                             ELSE Append(timers, delayMs(tokensPerSecond))
                /\ UNCHANGED grants
    /\ sinceRefill' = 0
    /\ issued' = IF logging THEN issued + 1 ELSE issued
    /\ UNCHANGED <<maxBurst, tokensPerSecond, logging, clock, recVars, genVars,
                   scoreVars>>
    /\ OthersUnchanged("limiter")

\* A pending timer is due and runs drainNext.
DrainNext ==
    /\ \E t \in 1..Len(timers) :
          /\ timers[t] = 0
          /\ LET held == refill(tokens, sinceRefill, tokensPerSecond, maxBurst)
                 rest == SubSeq(timers, 1, t - 1)
                             \o SubSeq(timers, t + 1, Len(timers))
                 again == Append(rest, delayMs(tokensPerSecond))
             IN  IF Len(queue) = 0
                 THEN /\ tokens' = held
                      /\ timers' = rest
                      /\ UNCHANGED <<queue, grants>>
                 ELSE IF held >= 1000
                 THEN /\ tokens' = held - 1000
                      /\ queue' = Tail(queue)
                      /\ grants' = IF logging
                                   THEN Append(grants, [id |-> Head(queue),
                                                        at |-> clock])
                                   ELSE grants
                      /\ timers' = IF Len(Tail(queue)) > 0 THEN again ELSE rest
                 ELSE /\ tokens' = held
                      /\ timers' = again
                      /\ UNCHANGED <<queue, grants>>
    /\ sinceRefill' = 0
    /\ UNCHANGED <<maxBurst, tokensPerSecond, logging, clock, issued, recVars,
                   genVars, scoreVars>>
    /\ OthersUnchanged("limiter")

\* A millisecond passes; a timer that is due may still be waiting to run.
TimePasses ==
    /\ logging => clock < MaxClock
    /\ clock' = IF logging THEN clock + 1 ELSE clock
    /\ sinceRefill' = Min(sinceRefill + 1, FillTime(tokensPerSecond, maxBurst))
    /\ timers' = [t \in 1..Len(timers) |->
                     IF timers[t] = 0 THEN 0 ELSE timers[t] - 1]
    /\ UNCHANGED <<tokens, maxBurst, tokensPerSecond, queue, logging, issued,
                   grants, recVars, genVars, scoreVars>>
    /\ OthersUnchanged("limiter")

NextLimiter ==
    \/ Acquire
    \/ DrainNext
    \/ TimePasses

\* The limiter with its history kept, up to MaxAcquires calls and MaxClock ms.
InitLogged == InitLimiter /\ logging

SpecLimiter == InitLogged /\ [][NextLimiter]_vars

\* The limiter without history and without an end: time keeps advancing
\* and a timer that is due runs.
InitUnlogged == InitLimiter /\ ~logging

SpecLimiterLive ==
    /\ InitUnlogged
    /\ [][NextLimiter]_vars
    /\ WF_vars(TimePasses)
    /\ WF_vars(DrainNext)

-----------------------------------------------------------------------------
(* Specification of the sites endpoints *)

InitSites ==
    /\ siteEntry \in SUBSET {<<"s">>}
    /\ siteVersion = 0
    /\ siteCache = <<>>
    /\ siteCalls = <<>>
    /\ siteResolved = 0
    /\ RecsIdle
    /\ GenIdle
    /\ ScoreIdle
    /\ OthersIdle("sites")

\* A call of listSites, getSite, addSite or deleteSite, up to its first
\* await or, on a cache hit, its return.
SiteCall ==
    /\ Len(siteCalls) < MaxSiteCalls
    /\ \E fn \in {"listSites", "getSite", "addSite", "deleteSite"} :
          LET siteUrl == <<"s">>
              call == [fn |-> fn, siteUrl |-> siteUrl, pc |-> "acquire",
                       response |-> None, result |-> None,
                       fromCache |-> FALSE, seen |-> siteResolved]
              cached == CacheGet(siteCache, 0, SiteCacheKey(fn, siteUrl))
          IN  IF fn \in {"addSite", "deleteSite"}
              THEN /\ siteCalls' = Append(siteCalls, call)
                   /\ UNCHANGED siteCache
              ELSE /\ siteCache' = cached.store
                   /\ siteCalls' =
                         IF cached.result # None
                         THEN Append(siteCalls,
                                     [call EXCEPT !.pc = "resolved",
                                                  !.result = cached.result,
                                                  !.fromCache = TRUE])
                         ELSE Append(siteCalls, call)
    /\ UNCHANGED <<siteEntry, siteVersion, siteResolved, recVars, genVars,
                   scoreVars>>
    /\ OthersUnchanged("sites")

\* rateLimiter.acquire() resolves and the call issues its API request.
SiteRequest ==
    /\ \E c \in 1..Len(siteCalls) :
          /\ siteCalls[c].pc = "acquire"
          /\ siteCalls' = [siteCalls EXCEPT ![c].pc = "sent"]
    /\ UNCHANGED <<siteEntry, siteVersion, siteCache, siteResolved, recVars,
                   genVars, scoreVars>>
    /\ OthersUnchanged("sites")

\* The API handles a request.
ApiServes ==
    /\ \E c \in 1..Len(siteCalls) :
          /\ siteCalls[c].pc = "sent"
          /\ LET answer == ApiAnswer(siteCalls[c].fn, siteCalls[c].siteUrl,
                                     siteEntry, siteVersion)
             IN  /\ siteEntry' = answer.entry
                 /\ siteVersion' = answer.version
                 /\ siteCalls' = [siteCalls EXCEPT
                                     ![c].pc = "answered",
                                     ![c].response = Some([ok |-> answer.ok,
                                                           data |-> answer.data])]
    /\ UNCHANGED <<siteCache, siteResolved, recVars, genVars, scoreVars>>
    /\ OthersUnchanged("sites")

\* The response arrives and the call runs to its end.
SiteResume ==
    /\ \E c \in 1..Len(siteCalls) :
          /\ siteCalls[c].pc = "answered"
          /\ LET call == siteCalls[c]
                 response == Val(call.response)
             IN  IF ~response.ok
                 THEN /\ siteCalls' = [siteCalls EXCEPT ![c].pc = "rejected"]
                      /\ UNCHANGED <<siteCache, siteResolved>>
                 ELSE IF call.fn \in {"addSite", "deleteSite"}
                 THEN /\ siteCache' =
                            StoreDelete(StoreDelete(siteCache, buildSitesKey(None)),
                                        buildSitesKey(Some(call.siteUrl)))
                      /\ siteResolved' = IF response.data.asOf > siteResolved
                                         THEN response.data.asOf
                                         ELSE siteResolved
                      /\ siteCalls' = [siteCalls EXCEPT ![c].pc = "resolved"]
                 ELSE /\ siteCache' =
                            CacheSet(siteCache, DEFAULT_MAX_ENTRIES, 0,
                                     SiteCacheKey(call.fn, call.siteUrl),
                                     response.data, 1800000).store
                      /\ siteCalls' = [siteCalls EXCEPT
                                          ![c].pc = "resolved",
                                          ![c].result = Some(response.data)]
                      /\ UNCHANGED siteResolved
    /\ UNCHANGED <<siteEntry, siteVersion, recVars, genVars, scoreVars>>
    /\ OthersUnchanged("sites")

NextSites ==
    \/ SiteCall
    \/ SiteRequest
    \/ ApiServes
    \/ SiteResume

SpecSites == InitSites /\ [][NextSites]_vars

-----------------------------------------------------------------------------
(* Specification of querySearchAnalytics *)

InitQuery ==
    /\ saRequest \in [rowLimit : {None, Some(10), Some(25000), Some(25001),
                                 Some(50000), Some(50001), Some(60000)},
                      startRow : {None, Some(0), Some(7)}]
    /\ saCache \in {None, Some([rows |-> <<[startRow |-> 0, rows |-> 3]>>])}
    /\ saPc = "idle"
    /\ allRows = <<>>
    /\ startRow = None
    /\ saAsked = <<>>
    /\ saReturned = None
    /\ RecsIdle
    /\ GenIdle
    /\ ScoreIdle
    /\ OthersIdle("query")

\* querySearchAnalytics up to its first await or, on a cache hit, its return.
QueryStart ==
    /\ saPc = "idle"
    /\ IF saCache # None
       THEN /\ saPc' = "returned"
            /\ saReturned' = saCache
            /\ UNCHANGED <<allRows, startRow, saAsked>>
       ELSE IF desiredLimitOf(saRequest) <= API_MAX_ROW_LIMIT
       THEN /\ saPc' = "single"
            /\ saAsked' = <<[rowLimit |-> desiredLimitOf(saRequest),
                             startRow |-> saRequest.startRow,
                             received |-> None]>>
            /\ UNCHANGED <<allRows, startRow, saReturned>>
       ELSE LET first == IF saRequest.startRow # None
                         THEN Val(saRequest.startRow) ELSE 0
            IN  /\ saPc' = "paging"
                /\ allRows' = <<>>
                /\ startRow' = Some(first)
                /\ saAsked' = <<[rowLimit |-> pageSize(desiredLimitOf(saRequest), 0),
                                 startRow |-> Some(first),
                                 received |-> None]>>
                /\ UNCHANGED saReturned
    /\ UNCHANGED <<saRequest, saCache, recVars, genVars, scoreVars>>
    /\ OthersUnchanged("query")

\* The awaited executeSingleQuery settles: it rejects, or it resolves with
\* at most the rows asked for, and the call runs to its next await or its end.
PageSettles ==
    /\ saPc \in {"single", "paging"}
    /\ LET asked == saAsked[Len(saAsked)]
           offset == IF asked.startRow # None THEN Val(asked.startRow) ELSE 0
       IN  \/ /\ saPc' = "thrown"
              /\ UNCHANGED <<saCache, allRows, startRow, saAsked, saReturned>>
           \/ \E n \in {0, 1, asked.rowLimit - 1, asked.rowLimit} :
                 LET page == [startRow |-> offset, rows |-> n]
                     pushed == Append(allRows, page)
                     settled == [saAsked EXCEPT ![Len(saAsked)].received = Some(n)]
                     desiredLimit == desiredLimitOf(saRequest)
                 IN  IF saPc = "single"
                     THEN /\ saPc' = "returned"
                          /\ saCache' = Some([rows |-> <<page>>])
                          /\ saReturned' = Some([rows |-> <<page>>])
                          /\ saAsked' = settled
                          /\ UNCHANGED <<allRows, startRow>>
                     ELSE IF n < asked.rowLimit \/ ~(RowCount(pushed) < desiredLimit)
                     THEN /\ saPc' = "returned"
                          /\ allRows' = pushed
                          /\ startRow' = IF n < asked.rowLimit THEN startRow
                                         ELSE Some(Val(startRow) + n)
                          /\ saCache' = Some([rows |-> pushed])
                          /\ saReturned' = Some([rows |-> pushed])
                          /\ saAsked' = settled
                     ELSE /\ saPc' = "paging"
                          /\ allRows' = pushed
                          /\ startRow' = Some(Val(startRow) + n)
                          /\ saAsked' =
                                Append(settled,
                                       [rowLimit |-> pageSize(desiredLimit,
                                                              RowCount(pushed)),
                                        startRow |-> Some(Val(startRow) + n),
                                        received |-> None])
                          /\ UNCHANGED <<saCache, saReturned>>
    /\ UNCHANGED <<saRequest, recVars, genVars, scoreVars>>
    /\ OthersUnchanged("query")

NextQuery ==
    \/ QueryStart
    \/ PageSettles

\* Every awaited page request settles.
SpecQuery == InitQuery /\ [][NextQuery]_vars /\ WF_vars(NextQuery)

-----------------------------------------------------------------------------
(* Claims about sortRecommendations / deduplicateRecommendations *)

\* Number of positions of list that hold the value r.
Occurrences(list, r) == Cardinality({i \in 1..Len(list) : list[i] = r})

SameTriple(r, s) ==
    /\ r.type = s.type
    /\ r.data.query = s.data.query
    /\ r.data.page = s.data.page

\* Best (lowest) priority rank among the input recommendations with r's key.
BestRank(list, r) ==
    LET ranks == {PRIORITY_ORDER[list[i].priority] :
                     i \in {j \in 1..Len(list) : SameTriple(list[j], r)}}
    IN  CHOOSE m \in ranks : \A n \in ranks : m <= n

\* The output holds at most one recommendation with r's key, and a retained
\* one has the best priority of the inputs with that key.
OnePerKeyAndBest(r) ==
    LET kept == {j \in 1..Len(out) : SameTriple(out[j], r)}
    IN  /\ Cardinality(kept) <= 1
        /\ \A j \in kept : PRIORITY_ORDER[out[j].priority] = BestRank(recs, r)

\* C2 as stated: after deduplicateRecommendations, every (type, query, page)
\* key of a recommendation that carries a query and a page (any value,
\* the empty string included) occurs at most once in the output, with the
\* highest priority of the inputs that have the key.
C2_AsStated ==
    op = "dedup" =>
        \A i \in 1..Len(recs) :
            (IsSome(recs[i].data.query) /\ IsSome(recs[i].data.page))
                => OnePerKeyAndBest(recs[i])

\* C2 amended: the same, for recommendations whose query and page are both
\* non-empty strings (an empty string counts as missing).
C2_DedupOnePerKey ==
    op = "dedup" =>
        \A i \in 1..Len(recs) :
            (Truthy(recs[i].data.query) /\ Truthy(recs[i].data.page))
                => OnePerKeyAndBest(recs[i])

\* Two inputs share a non-empty key with different priorities, the lower
\* priority first, and the call dropped one of them.
C2_Witness ==
    /\ op = "dedup"
    /\ Len(recs) = 2
    /\ Truthy(recs[1].data.query) /\ Truthy(recs[1].data.page)
    /\ SameTriple(recs[1], recs[2])
    /\ recs[1].priority = "medium" /\ recs[2].priority = "high"
    /\ out = <<recs[2]>>

\* C3: every input recommendation whose data has no query or no page is in
\* the output of deduplicateRecommendations as often as in the input.
C3_MissingKeyKept ==
    op = "dedup" =>
        \A i \in 1..Len(recs) :
            (~IsSome(recs[i].data.query) \/ ~IsSome(recs[i].data.page))
                => Occurrences(out, recs[i]) = Occurrences(recs, recs[i])

\* Two inputs of the same type, both without a query, were both kept.
C3_Witness ==
    /\ op = "dedup"
    /\ Len(recs) = 2
    /\ recs[1].type = recs[2].type
    /\ ~IsSome(recs[1].data.query) /\ ~IsSome(recs[2].data.query)
    /\ recs[1].data.page = recs[2].data.page
    /\ Len(out) = 2

\* The secondary sort key as the claim words it.
C4_Impressions(r) ==
    IF r.data.impressions # None THEN r.data.impressions[1]
    ELSE IF r.data.totalImpressions # None THEN r.data.totalImpressions[1]
    ELSE 0

IndexPermutations(n) ==
    {p \in [1..n -> 1..n] : \A i, j \in 1..n : i # j => p[i] # p[j]}

\* C4: sortRecommendations returns a permutation of its input, ordered by
\* priority rank, then by descending impressions (totalImpressions, then 0,
\* when absent), and elements equal on both keys keep their input order.
C4_StableSort ==
    op = "sort" =>
        /\ Len(out) = Len(recs)
        /\ \E p \in IndexPermutations(Len(recs)) :
            /\ \A i \in 1..Len(out) : out[i] = recs[p[i]]
            /\ \A i, j \in 1..Len(out) :
                i < j =>
                    LET ri == PRIORITY_ORDER[out[i].priority]
                        rj == PRIORITY_ORDER[out[j].priority]
                    IN  \/ ri < rj
                        \/ ri = rj /\ C4_Impressions(out[i]) > C4_Impressions(out[j])
                        \/ /\ ri = rj
                           /\ C4_Impressions(out[i]) = C4_Impressions(out[j])
                           /\ p[i] < p[j]

\* Two different recommendations that tie on priority and impressions were
\* sorted and kept their order.
C4_Witness ==
    /\ op = "sort"
    /\ Len(recs) = 2
    /\ recs[1] # recs[2]
    /\ recs[1].priority = recs[2].priority
    /\ C4_Impressions(recs[1]) = C4_Impressions(recs[2])
    /\ out = recs

-----------------------------------------------------------------------------
(* Claims about generateRecommendations *)

RecsOfType(type) ==
    {i \in 1..Len(recommendations) : recommendations[i].type = <<type>>}

QueriesOfRows == {rows[i].query : i \in 1..Len(rows)}

PagesOfQuery(q) == {rows[i].page : i \in {j \in 1..Len(rows) : rows[j].query = q}}

\* C1 as stated: for every query of the input, generateRecommendations
\* emits exactly one consolidation recommendation (priority high, effort
\* medium, data.pages naming the query's pages) when the query's rows name at
\* least two distinct pages, and none when they all name the same page.
C1_AsStated ==
    generated =>
        \A q \in QueriesOfRows :
            LET hits == {i \in RecsOfType("consolidation") :
                            recommendations[i].data.query = Some(q)}
            IN  IF Cardinality(PagesOfQuery(q)) >= 2
                THEN /\ Cardinality(hits) = 1
                     /\ \A i \in hits :
                            /\ recommendations[i].priority = "high"
                            /\ recommendations[i].effort = "medium"
                            /\ IsSome(recommendations[i].data.pages)
                            /\ {Val(recommendations[i].data.pages)[k] :
                                  k \in 1..Len(Val(recommendations[i].data.pages))}
                                 = PagesOfQuery(q)
                ELSE hits = {}

\* The CtrAnalysis supplied for rows[i]: ctrAnalyses[i], if there is one.
SuppliedAnalysis(i) ==
    IF ctrAnalyses # None /\ i <= Len(ctrAnalyses[1])
    THEN Some(ctrAnalyses[1][i]) ELSE None

TitleExpected(i) ==
    /\ rows[i].position <= 30
    /\ rows[i].impressions >= 100
    /\ IF SuppliedAnalysis(i) # None
       THEN SuppliedAnalysis(i)[1].ctrRatio < 600
       ELSE rows[i].ctr < 50

\* The recommendations of a type that were made from a row with the content
\* of rows[i].
RecsOfRow(type, i) ==
    {k \in RecsOfType(type) :
        /\ recommendations[k].data.query = Some(rows[i].query)
        /\ recommendations[k].data.page = Some(rows[i].page)
        /\ recommendations[k].data.position = Some(rows[i].position)
        /\ recommendations[k].data.impressions = Some(rows[i].impressions)}

\* C5 as stated: a title_optimization recommendation (priority high, effort
\* low) is emitted for a row exactly when position <= 3, impressions >= 100
\* and the CTR is low: ctrRatio < 0.6 in the CtrAnalysis supplied for the
\* row, or raw ctr < 0.05 when none is supplied for it.  (Rows of equal
\* content are counted: as many recommendations as such rows that qualify.)
C5_AsStated ==
    generated =>
        \A i \in 1..Len(rows) :
            /\ Cardinality({k \in RecsOfRow("title_optimization", i) :
                               recommendations[k].data.ctr = Some(rows[i].ctr)})
                 = Cardinality({j \in 1..Len(rows) :
                                   rows[j] = rows[i] /\ TitleExpected(j)})
            /\ \A k \in RecsOfRow("title_optimization", i) :
                   /\ recommendations[k].priority = "high"
                   /\ recommendations[k].effort = "low"
                   /\ rows[i].position <= 30

\* C6 as stated: some single row (of the rows the model draws from, or of
\* the input at hand) makes generateRecommendations emit both a
\* title_optimization and a question_content recommendation.
C6_AsStated ==
    \E row \in RuleRowSpace \cup TrendRowSpace \cup {rows[i] : i \in 1..Len(rows)} :
        \E a \in {None} \cup {Some(<<x>>) : x \in CtrAnalysisSpace} :
            LET result == generateRecommendations(<<row>>, a, None)
            IN  /\ \E i \in 1..Len(result) : result[i].type = <<"title_optimization">>
                /\ \E i \in 1..Len(result) : result[i].type = <<"question_content">>

\* C6 amended: no row yields both title_optimization and question_content
\* (the first needs position <= 3, the second position > 3); a row can
\* still trigger several rules, such as content_expansion and
\* question_content.
C6_TitleExcludesQuestion ==
    generated =>
        \A i \in 1..Len(rows) :
            RecsOfRow("title_optimization", i) = {}
                \/ RecsOfRow("question_content", i) = {}

\* One row yielded content_expansion and question_content together.
C6_Witness ==
    /\ generated
    /\ Len(rows) = 1
    /\ RecsOfRow("content_expansion", 1) # {}
    /\ RecsOfRow("question_content", 1) # {}

\* The first row, in list order, whose query or page is the key.
FirstRowFor(key) ==
    LET hits == {i \in 1..Len(rows) : rows[i].query = key \/ rows[i].page = key}
    IN  IF hits = {} THEN 0 ELSE CHOOSE i \in hits : \A j \in hits : i <= j

\* C7: every entry (key, trend) of trends yields one content_refresh
\* recommendation (priority critical, effort medium) exactly when the trend
\* is falling and the first row matching the key does not exist or has
\* impressions >= 100; nothing else yields content_refresh, and without
\* trends there is none.
C7_ContentRefresh ==
    generated =>
        IF trends = None THEN RecsOfType("content_refresh") = {}
        ELSE /\ \A e \in 1..Len(trends[1]) :
                    LET key == trends[1][e].key
                        hits == {i \in RecsOfType("content_refresh") :
                                    recommendations[i].data.key = Some(key)}
                        due == /\ trends[1][e].trend.direction = "falling"
                               /\ \/ FirstRowFor(key) = 0
                                  \/ rows[FirstRowFor(key)].impressions >= 100
                    IN  Cardinality(hits) = (IF due THEN 1 ELSE 0)
             /\ \A i \in RecsOfType("content_refresh") :
                    /\ recommendations[i].priority = "critical"
                    /\ recommendations[i].effort = "medium"
                    /\ \E e \in 1..Len(trends[1]) :
                           recommendations[i].data.key = Some(trends[1][e].key)

\* A falling trend whose key matches two rows, the first with enough
\* impressions and the second without, produced its content_refresh.
C7_Witness ==
    /\ generated
    /\ trends # None
    /\ Len(rows) = 2
    /\ \E e \in 1..Len(trends[1]) :
          /\ trends[1][e].trend.direction = "falling"
          /\ rows[1].query = trends[1][e].key
          /\ rows[2].query = trends[1][e].key
          /\ rows[1].impressions >= 100
          /\ rows[2].impressions < 100
    /\ RecsOfType("content_refresh") # {}

-----------------------------------------------------------------------------
(* Claims about scoreOpportunity *)

\* The bucket of a score given in hundredths.
BucketOfReturnedScore(score) ==
    IF score >= 8000 THEN "critical"
    ELSE IF score >= 6000 THEN "high"
    ELSE IF score >= 4000 THEN "medium"
    ELSE "low"

\* C8 as stated: the priority scoreOpportunity returns is the bucket of the
\* score it returns (>= 80 critical, >= 60 high, >= 40 medium, else low).
C8_AsStated ==
    scoreResult # None =>
        scoreResult[1].priority = BucketOfReturnedScore(scoreResult[1].score)

FactorNames == <<"impressions", "ctrGap", "position", "trend", "queryCount">>

ClaimedWeight(name) ==
    CASE name = "impressions" -> 30
      [] name = "ctrGap" -> 25
      [] name = "position" -> 25
      [] name = "trend" -> 10
      [] name = "queryCount" -> 10

\* C9: the returned score is within [0, 100] and is the sum of the five
\* factor contributions rounded to two decimals; the factors are
\* impressions 0.30, ctrGap 0.25, position 0.25, trend 0.10, queryCount 0.10,
\* each with a value in [0, 100] and contribution = weight x value; zero
\* impressions give the impressions factor the value 0.
C9_ScoreIsRoundedSum ==
    scoreResult # None =>
        LET r == scoreResult[1]
            total == r.factors[1].contribution + r.factors[2].contribution
                       + r.factors[3].contribution + r.factors[4].contribution
                       + r.factors[5].contribution
        IN  /\ Len(r.factors) = 5
            /\ \A i \in 1..5 :
                  /\ r.factors[i].name = FactorNames[i]
                  /\ r.factors[i].weight = ClaimedWeight(FactorNames[i])
                  /\ r.factors[i].value >= 0
                  /\ r.factors[i].value <= 1000000
                  /\ r.factors[i].contribution
                        = r.factors[i].weight * r.factors[i].value
            /\ r.score >= 0
            /\ r.score <= 10000
            /\ r.score * 10000 - 5000 <= total
            /\ total < r.score * 10000 + 5000
            /\ (params.impressions = 0 => r.factors[1].value = 0)

\* An opportunity with no impressions at position 0.5, where the position
\* curve exceeds 100 before clamping, was scored.
C9_Witness ==
    /\ scoreResult # None
    /\ params.impressions = 0
    /\ params.position = 5
    /\ scoreResult[1].factors[3].value = 1000000
    /\ scoreResult[1].score > 0

\* The two calls at hand: the earlier one and the one just returned, made
\* with inputs that differ in the trend only.
PairScored == prev # None /\ scoreResult # None

\* The declining and the rising call of the pair, when it has one of each.
DecliningOf ==
    IF prev[1].params.trend[1] < 0
    THEN [trend |-> prev[1].params.trend[1], score |-> prev[1].result.score]
    ELSE [trend |-> params.trend[1], score |-> scoreResult[1].score]

RisingOf ==
    IF prev[1].params.trend[1] > 0
    THEN [trend |-> prev[1].params.trend[1], score |-> prev[1].result.score]
    ELSE [trend |-> params.trend[1], score |-> scoreResult[1].score]

OneDecliningOneRising ==
    /\ PairScored
    /\ prev[1].params.trend # None
    /\ \/ prev[1].params.trend[1] < 0 /\ params.trend[1] > 0
       \/ prev[1].params.trend[1] > 0 /\ params.trend[1] < 0

\* C10 as stated: of two inputs that differ only in that one trend is
\* negative and the other positive, the declining one scores strictly higher.
C10_AsStated ==
    OneDecliningOneRising => DecliningOf.score > RisingOf.score

\* A trend in 1e-4, limited to [-1, 1] as normalizeTrend's clamp does.
ClampTrend(t) == IF t > 10000 THEN 10000 ELSE IF t < -10000 THEN -10000 ELSE t

\* C10 amended: the declining one never scores lower, and scores strictly
\* higher whenever the two trends, each limited to [-1, 1], differ by at
\* least 0.004 (below that the rounding to two decimals can level them).
C10_DecliningNotLower ==
    OneDecliningOneRising =>
        /\ DecliningOf.score >= RisingOf.score
        /\ ClampTrend(RisingOf.trend) - ClampTrend(DecliningOf.trend) >= 40
              => DecliningOf.score > RisingOf.score

\* Trends -1 and 1 were scored on the same opportunity and the declining
\* call came out ten points higher.
C10_Witness ==
    /\ OneDecliningOneRising
    /\ DecliningOf.trend = -10000
    /\ RisingOf.trend = 10000
    /\ DecliningOf.score = RisingOf.score + 1000

-----------------------------------------------------------------------------
(* Claims about detectTrend *)

\* The caller's list with its points in the order given by perm.
Reordered(points, perm) == [i \in 1..Len(points) |-> points[perm[i]]]

\* C11 (as stated): detectTrend is invariant to input order: for every
\* permutation of the caller's list it returns the same direction, slope,
\* percentChange, volatility, confidence, breakpoints and summary.
C11_AsStated ==
    IsSome(trendOut) =>
        \A perm \in IndexPermutations(Len(trendPoints)) :
            detectTrend(Reordered(trendPoints, perm)) = Val(trendOut)

\* The list is in ascending date order (points of one date in any order).
AscendingDates(points) ==
    \A i, j \in 1..Len(points) : i < j => points[i].date <= points[j].date

\* The absolute delta of point i (i >= 2) of the list.
AbsDelta(points, i) == Abs(points[i].value - points[i - 1].value)

RECURSIVE TotalAbsDelta(_, _)
TotalAbsDelta(points, i) ==
    IF i < 2 THEN 0 ELSE AbsDelta(points, i) + TotalAbsDelta(points, i - 1)

\* The points whose absolute delta exceeds 2 times the mean of the
\* Len(points) - 1 consecutive absolute deltas.
JumpIndexes(points) ==
    {i \in 2..Len(points) :
        (Len(points) - 1) * AbsDelta(points, i)
            > 2 * TotalAbsDelta(points, Len(points))}

\* The k-th smallest member of a set of integers.
KthOf(S, k) == CHOOSE i \in S : Cardinality({j \in S : j <= i}) = k

\* C12: for at least 2 points in ascending date order, the breakpoints are,
\* in order, exactly the points i >= 1 whose absolute delta exceeds 2 times
\* the mean of all consecutive absolute deltas; each carries that point's
\* date, direction up for a positive delta and down for a negative one, and
\* a changePercent >= 0.
C12_Breakpoints ==
    (IsSome(trendOut) /\ Len(trendPoints) >= 2 /\ AscendingDates(trendPoints)) =>
        LET jumps == JumpIndexes(trendPoints)
            bps == Val(trendOut).breakpoints
        IN  /\ Len(bps) = Cardinality(jumps)
            /\ \A k \in 1..Len(bps) :
                  LET i == KthOf(jumps, k)
                      delta == trendPoints[i].value - trendPoints[i - 1].value
                  IN  /\ bps[k].date = trendPoints[i].date
                      /\ delta > 0 => bps[k].direction = "up"
                      /\ delta < 0 => bps[k].direction = "down"
                      /\ delta # 0
                      /\ bps[k].changePercent.n >= 0

\* An ascending series with an upward and a downward breakpoint and points
\* that are none.
C12_Witness ==
    /\ IsSome(trendOut)
    /\ AscendingDates(trendPoints)
    /\ Len(trendPoints) > Len(Val(trendOut).breakpoints) + 1
    /\ \E k \in 1..Len(Val(trendOut).breakpoints) :
          Val(trendOut).breakpoints[k].direction = "down"

\* C13: for 0 or 1 points detectTrend returns the neutral result: direction
\* stable, slope 0, percentChange 0, volatility 0, confidence 0 and no
\* breakpoints.
C13_Neutral ==
    (IsSome(trendOut) /\ Len(trendPoints) < 2) =>
        /\ Val(trendOut).direction = "stable"
        /\ Val(trendOut).slope = RInt(0)
        /\ Val(trendOut).percentChange = RInt(0)
        /\ Val(trendOut).volatility = Sqrt(RInt(0))
        /\ Val(trendOut).confidence = RInt(0)
        /\ Val(trendOut).breakpoints = <<>>

C13_Witness ==
    /\ IsSome(trendOut)
    /\ Len(trendPoints) = 1

-----------------------------------------------------------------------------
(* Claims about classifyQuery *)

\* The lowercased, trimmed query of the call at hand.
NormalizedInput == trim(toLowerCase(classifyInput))

\* The rules whose pattern matches a lowercased, trimmed query.
MatchingRules(normalized) ==
    {r \in 1..Len(CLASSIFICATION_RULES) :
        PatternTest(CLASSIFICATION_RULES[r], normalized)}

\* The place of an intent in the fixed category order.
IntentRank(intent) ==
    CASE intent = "problem_solving" -> 1
      [] intent = "investigational" -> 2
      [] intent = "transactional" -> 3
      [] intent = "navigational" -> 4
      [] intent = "informational" -> 5

\* C14: the returned intent, subType and confidence are those of the first
\* rule whose pattern matches the lowercased, trimmed query, and no matching
\* rule has a category that comes earlier in the order problem_solving,
\* investigational, transactional, navigational, informational.
C14_FirstMatch ==
    IsSome(classified) =>
        LET matching == MatchingRules(NormalizedInput)
            first == CHOOSE r \in matching : \A q \in matching : r <= q
        IN  matching # {} =>
            /\ Val(classified).intent = CLASSIFICATION_RULES[first].intent
            /\ Val(classified).subType = Some(CLASSIFICATION_RULES[first].subType)
            /\ Val(classified).confidence = CLASSIFICATION_RULES[first].confidence
            /\ \A r \in matching :
                  IntentRank(Val(classified).intent)
                      <= IntentRank(CLASSIFICATION_RULES[r].intent)

\* A classified query that matches rules of three categories.
C14_Witness ==
    /\ IsSome(classified)
    /\ Cardinality({CLASSIFICATION_RULES[r].intent :
                       r \in MatchingRules(NormalizedInput)}) >= 3

\* C15: every query gets a result; when no rule matches, a query without
\* white space and longer than 2 characters is navigational/brand with
\* confidence 0.4 and every other one (the empty string too) informational
\* with confidence 0.3 and no subType.
C15_Unmatched ==
    IsSome(classified) =>
        LET normalized == NormalizedInput
            single == \A i \in 1..Len(normalized) : normalized[i] \notin WhiteSpace
        IN  MatchingRules(normalized) = {} =>
            IF single /\ Len(normalized) > 2
            THEN /\ Val(classified).intent = "navigational"
                 /\ Val(classified).subType = Some("brand")
                 /\ Val(classified).confidence = 40
            ELSE /\ Val(classified).intent = "informational"
                 /\ Val(classified).subType = None
                 /\ Val(classified).confidence = 30

\* An unmatched single word was classified, with blanks around it in the
\* caller's string.
C15_Witness ==
    /\ IsSome(classified)
    /\ MatchingRules(NormalizedInput) = {}
    /\ Val(classified).intent = "navigational"
    /\ Len(classifyInput) > Len(NormalizedInput)

-----------------------------------------------------------------------------
(* Claims about the CTR benchmarks *)

\* The integer nearest to a position given in tenths (a half goes up),
\* raised to at least 1.
ClaimedRank(position) ==
    LET nearest == CHOOSE k \in -1000..1000 :
                       10 * k - 5 <= position /\ position < 10 * k + 5
    IN  IF nearest < 1 THEN 1 ELSE nearest

\* C16: getExpectedCtr rounds the position to the nearest integer, raises it
\* to at least 1, and returns the table value for ranks 1-10 (0.317 for rank
\* 1 down to 0.022 for rank 10), 0.015 for ranks 11-20 and 0.005 above 20;
\* the result is strictly positive for every position.
C16_ExpectedCtr ==
    IsSome(ctrResult) =>
        LET rank == ClaimedRank(ctrPosition)
            expected == Val(ctrResult).expectedCtr
        IN  /\ expected > 0
            /\ rank = 1 => expected = 317
            /\ rank = 2 => expected = 247
            /\ rank = 5 => expected = 95
            /\ rank = 10 => expected = 22
            /\ rank \in 1..10 => expected \in 22..317
            /\ rank \in 11..20 => expected = 15
            /\ rank > 20 => expected = 5

\* A position below 1 was analysed.
C16_Witness ==
    /\ IsSome(ctrResult)
    /\ ctrPosition <= 0

LabelRank(label) ==
    CASE label = "poor" -> 1
      [] label = "below_average" -> 2
      [] label = "average" -> 3
      [] label = "good" -> 4
      [] label = "excellent" -> 5

\* The label the claim gives to the ratio n / d (d > 0).
ClaimedLabel(n, d) ==
    IF 10 * n >= 15 * d THEN "excellent"
    ELSE IF 10 * n >= 11 * d THEN "good"
    ELSE IF 10 * n >= 8 * d THEN "average"
    ELSE IF 10 * n >= 5 * d THEN "below_average"
    ELSE "poor"

\* C17: ctrRatio is actualCtr / expectedCtr, the label is excellent from a
\* ratio of 1.5, good from 1.1, average from 0.8, below_average from 0.5 and
\* poor below, and no call with a ratio at least as large gets a worse label.
C17_LabelSteps ==
    IsSome(ctrResult) =>
        LET a == Val(ctrResult)
        IN  /\ a.ctrRatio.n * (10 * a.expectedCtr) = ctrActual * a.ctrRatio.d
            /\ a.performance = ClaimedLabel(a.ctrRatio.n, a.ctrRatio.d)
            /\ \A p \in PositionSpace, c \in ActualCtrSpace :
                  LET b == analyzeCtr(p, c)
                  IN  b.ctrRatio.n * a.ctrRatio.d >= a.ctrRatio.n * b.ctrRatio.d
                          => LabelRank(b.performance) >= LabelRank(a.performance)

\* A ratio of exactly 1.1 was labelled.
C17_Witness ==
    /\ IsSome(ctrResult)
    /\ Val(ctrResult).ctrRatio = Rat(11, 10)

\* C18: for every position the scorer's default expected CTR equals the
\* benchmark's expected CTR.
C18_TablesAgree ==
    IsSome(ctrResult) =>
        getDefaultExpectedCtr(ctrPosition) = Val(ctrResult).expectedCtr

\* A position of page two was analysed.
C18_Witness ==
    /\ IsSome(ctrResult)
    /\ Val(ctrResult).expectedCtr = PAGE_TWO_CTR

-----------------------------------------------------------------------------
(* Claims about the arrays of sortRecommendations / deduplicateRecommendations *)

\* C19: sortRecommendations and deduplicateRecommendations never mutate
\* their input: across either call the caller's list keeps its length, its
\* elements and their order.
C19_InputUnchanged == [][recs' = recs]_vars

\* A call returned a list in another order than the caller's, or a shorter
\* one.
C19_Witness ==
    /\ op \in {"sort", "dedup"}
    /\ out # recs

-----------------------------------------------------------------------------
(* Claims about CacheManager *)

\* C20: after set(k, v, ttl) at t0 with no later set, delete, invalidation,
\* clear or eviction of k, get(k) at t returns v when t - t0 < ttl and
\* undefined when t - t0 >= ttl, and the expired get leaves no entry of k in
\* the store.
C20_TtlExpiry ==
    (IsSome(lastGet) /\ IsSome(lastSet[Val(lastGet).key])) =>
        LET got == Val(lastGet)
            set == Val(lastSet[got.key])
        IN  IF now - set.at < set.ttlMs
            THEN got.result = Some(set.value)
            ELSE /\ got.result = None
                 /\ ~StoreHas(store, got.key)

\* A get at the very millisecond at which a positive TTL ran out.
C20_Witness ==
    /\ IsSome(lastGet)
    /\ IsSome(lastSet[Val(lastGet).key])
    /\ Val(lastSet[Val(lastGet).key]).ttlMs > 0
    /\ now - Val(lastSet[Val(lastGet).key]).at = Val(lastSet[Val(lastGet).key]).ttlMs

\* The keys of a Map.
KeysOf(entries) == {entries[i].key : i \in 1..Len(entries)}

\* The keys of the entries of a Map whose time has come.
ExpiredKeys(entries, time) ==
    {entries[i].key : i \in {j \in 1..Len(entries) : time >= entries[j].expiresAt}}

\* C21: a set of a key that is not stored, made while the cache holds
\* maxEntries entries, removes exactly the expired entries when there is
\* one, and otherwise exactly one entry, the least recently used one (a set
\* or a successful get is a use).
C21_LruEviction ==
    [][(/\ lastCall'.op = "set"
        /\ lastCall'.key \notin KeysOf(store)
        /\ Len(store) = maxEntries)
       => LET gone == KeysOf(store) \ KeysOf(store')
          IN  IF ExpiredKeys(store, now) = {}
              THEN gone = {Head(lastUse)}
              ELSE gone = ExpiredKeys(store, now)]_vars

\* A set into a full cache of two unexpired entries has evicted the first
\* entry of the Map although it was set later than the second one: the
\* second had been moved behind it by a use.
C21_Witness ==
    /\ lastCall.op = "set"
    /\ maxEntries = 2
    /\ Len(lastCall.before) = 2
    /\ lastCall.key \notin KeysOf(lastCall.before)
    /\ ExpiredKeys(lastCall.before, now) = {}
    /\ lastCall.before[1].expiresAt > lastCall.before[2].expiresAt
    /\ lastCall.before[1].key \notin KeysOf(store)
    /\ lastCall.before[2].key \in KeysOf(store)

\* C22: hits + misses is the number of get calls since construction or the
\* last clear(); a get is a hit exactly when its key is stored and unexpired
\* and a miss otherwise; set, delete and invalidatePrefix change neither
\* counter; clear() resets both and empties the store.
C22_Statistics ==
    [][/\ cacheHits' + cacheMisses' = gets'
       /\ lastCall'.op = "get" =>
             IF /\ lastCall'.key \in KeysOf(store)
                /\ lastCall'.key \notin ExpiredKeys(store, now)
             THEN cacheHits' = cacheHits + 1 /\ cacheMisses' = cacheMisses
             ELSE cacheHits' = cacheHits /\ cacheMisses' = cacheMisses + 1
       /\ lastCall'.op \in {"set", "delete", "invalidatePrefix"} =>
             cacheHits' = cacheHits /\ cacheMisses' = cacheMisses
       /\ lastCall'.op = "clear" =>
             cacheHits' = 0 /\ cacheMisses' = 0 /\ store' = <<>>]_vars

\* A get of an expired entry has been counted as a miss after a get of a
\* stored, unexpired entry was counted as a hit.
C22_Witness ==
    /\ lastCall.op = "get"
    /\ IsSome(lastGet)
    /\ Val(lastGet).result = None
    /\ IsSome(lastSet[lastCall.key])
    /\ cacheHits = 1
    /\ cacheMisses = 1

\* C27: the Map never holds more than maxEntries entries, and a set of a key
\* that is stored leaves every other entry in the Map.
C27_Capacity ==
    /\ Len(store) <= maxEntries
    /\ (lastCall.op = "set" /\ lastCall.key \in KeysOf(lastCall.before)) =>
          \A i \in 1..Len(lastCall.before) :
              lastCall.before[i].key # lastCall.key =>
                  \E j \in 1..Len(store) : store[j] = lastCall.before[i]

\* A key of a full cache of two entries has been overwritten.
C27_Witness ==
    /\ lastCall.op = "set"
    /\ maxEntries = 2
    /\ Len(lastCall.before) = 2
    /\ lastCall.key \in KeysOf(lastCall.before)
    /\ Len(store) = 2

-----------------------------------------------------------------------------
(* Claims about RateLimiter *)

\* C23: the calls granted in any window of T seconds are at most
\* maxBurst + tokensPerSecond x T (the window from one grant to a later one
\* is the shortest that holds them all), and the token count stays within
\* [0, maxBurst].
C23_ThrottlingBound ==
    /\ 0 <= tokens
    /\ tokens <= maxBurst * 1000
    /\ \A i \in 1..Len(grants) : \A j \in i..Len(grants) :
          (j - i + 1) * 1000
              <= maxBurst * 1000 + tokensPerSecond * (grants[j].at - grants[i].at)

\* A window of positive length whose grants are as many as the bound
\* allows, the last of them to a call that had waited.
C23_Witness ==
    /\ timers # <<>>
    /\ \E i \in 1..Len(grants) : \E j \in (i + 1)..Len(grants) :
          /\ grants[j].at > grants[i].at
          /\ grants[j].id < issued
          /\ (j - i + 1) * 1000
                = maxBurst * 1000 + tokensPerSecond * (grants[j].at - grants[i].at)

\* C24: no acquire() call has received its token while a call made before
\* it is still waiting.
C24_Fifo ==
    \A w \in 1..Len(queue) : \A g \in 1..Len(grants) : grants[g].id < queue[w]

\* C25: every acquire() call that waits is eventually resolved.
C25_EventuallyResolved ==
    \A id \in 1..(MaxQueue + 1) :
        (\E w \in 1..Len(queue) : queue[w] = id)
            ~> (\A w \in 1..Len(queue) : queue[w] # id)

-----------------------------------------------------------------------------
(* Claims about the sites endpoints *)

\* C26: a listSites or getSite call made after an addSite or deleteSite has
\* resolved never returns cached data that was read from the API before
\* that mutation.
C26_NoStaleCache ==
    \A c \in 1..Len(siteCalls) :
        (siteCalls[c].pc = "resolved" /\ siteCalls[c].fromCache) =>
            Val(siteCalls[c].result).asOf >= siteCalls[c].seen

-----------------------------------------------------------------------------
(* Claims about querySearchAnalytics *)

\* The rows received by the first k page requests.
ReceivedUpTo(k) ==
    RSumOf([j \in 1..k |-> RInt(IF saAsked[j].received # None
                                THEN Val(saAsked[j].received) ELSE 0)]).n

\* What C28 says of a state of a call that missed the cache with
\* rowLimit > 25000.
C28_PagesInOrder ==
    (saAsked # <<>> /\ desiredLimitOf(saRequest) > API_MAX_ROW_LIMIT) =>
        LET rowLimit == Val(saRequest.rowLimit)
            first == IF saRequest.startRow # None
                     THEN Val(saRequest.startRow) ELSE 0
            last == saAsked[Len(saAsked)]
        IN  /\ \A k \in 1..Len(saAsked) :
                  /\ saAsked[k].rowLimit <= 25000
                  /\ saAsked[k].startRow = Some(first + ReceivedUpTo(k - 1))
                  /\ k < Len(saAsked) =>
                        /\ saAsked[k].received = Some(saAsked[k].rowLimit)
                        /\ ReceivedUpTo(k) < rowLimit
            /\ saPc = "returned" =>
                  /\ Val(last.received) < last.rowLimit
                        \/ ReceivedUpTo(Len(saAsked)) = rowLimit
                  /\ ReceivedUpTo(Len(saAsked)) <= rowLimit
                  /\ Val(saReturned).rows =
                        [k \in 1..Len(saAsked) |->
                            [startRow |-> Val(saAsked[k].startRow),
                             rows |-> Val(saAsked[k].received)]]
                  /\ saCache = saReturned
            /\ saPc # "returned" => saCache = None

\* C28: on a cache miss with rowLimit > 25000 the call terminates; its pages
\* are asked at most 25000 rows at a time, at offsets that advance by the
\* rows received; it stops at the first short page or once rowLimit rows
\* are collected; it returns the pages in order, at most rowLimit rows; it
\* writes the cache only when no page request failed.
C28_Pagination ==
    /\ []C28_PagesInOrder
    /\ (saPc = "paging") ~> (saPc \in {"returned", "thrown"})

\* A call for 60000 rows from offset 7 has returned three pages.
C28_Witness ==
    /\ saPc = "returned"
    /\ saRequest = [rowLimit |-> Some(60000), startRow |-> Some(7)]
    /\ Len(saAsked) = 3
    /\ saAsked[3].rowLimit = 10000
    /\ saAsked[3].received = Some(10000)

\* The title_optimization recommendations, in the order they were pushed.
TitleRecs ==
    SelectSeq(recommendations, LAMBDA r : r.type = <<"title_optimization">>)

\* What the title_optimization rule gives for rows[1..n] when rows[i] is
\* evaluated against ctrAnalyses[i], in row order.
RECURSIVE TitleByIndex(_)
TitleByIndex(n) ==
    IF n = 0 THEN <<>>
    ELSE TitleByIndex(n - 1)
            \o checkTitleOptimization(rows[n], Some(ctrAnalyses[1][n]))

\* C29 as stated: when ctrAnalyses is supplied, the title_optimization rule
\* is evaluated for rows[i] against ctrAnalyses[i] for every index i below
\* the length of ctrAnalyses, whatever the other rows are: the
\* title_optimization recommendations begin with those the rule gives for
\* the rows that have an analysis, each with its own analysis, in row order.
C29_AsStated ==
    (generated /\ ctrAnalyses # None) =>
        LET expected == TitleByIndex(Len(ctrAnalyses[1]))
        IN  /\ Len(TitleRecs) >= Len(expected)
            /\ SubSeq(TitleRecs, 1, Len(expected)) = expected

\* The rules whose position bands are <= 3, 4-10 and 11-20.
BandTypes == {"title_optimization", "content_expansion", "page_two_optimization"}

\* The types of the rules that generateRecommendations applies row by row.
PerRowTypes == BandTypes \cup {"low_value_keyword", "question_content"}

\* C30: for any single row, generateRecommendations emits at most one of
\* title_optimization, content_expansion and page_two_optimization, and a
\* row that yields low_value_keyword yields no other per-row recommendation.
C30_ExclusiveRules ==
    generated =>
        \A i \in 1..Len(rows) :
            /\ Cardinality({t \in BandTypes : RecsOfRow(t, i) # {}}) <= 1
            /\ RecsOfRow("low_value_keyword", i) # {} =>
                   \A t \in PerRowTypes \ {"low_value_keyword"} :
                       RecsOfRow(t, i) = {}

\* The input has a row that yields low_value_keyword alone and a row in the
\* band 4-10 that yields content_expansion, with no page_two_optimization.
C30_Witness ==
    /\ generated
    /\ \E i, j \in 1..Len(rows) :
           /\ rows[i].impressions < 10
           /\ RecsOfRow("low_value_keyword", i) # {}
           /\ rows[j].position >= 40
           /\ rows[j].position <= 100
           /\ RecsOfRow("content_expansion", j) # {}
    /\ RecsOfType("page_two_optimization") = {}

=============================================================================
